---- MODULE Spec2Model ----
(***************************************************************************)
(* FirstResponder: the incident-memory state machine                       *)
(* (src/src/memory/operations.ts over the file store of memory/storage.ts) *)
(* and the agentic tool-use loop (src/src/agent/agent.ts).                 *)
(*                                                                         *)
(* Timestamps are the ISO-8601 strings of Date.toISOString(); they are     *)
(* fixed-width, so their lexical order is the order of the instants. The   *)
(* model keeps the instant (a natural number of clock ticks) and compares  *)
(* instants where the code compares the strings.                           *)
(***************************************************************************)
EXTENDS Integers, Sequences, FiniteSets, TLC

\* ---------------------------------------------------------------- bounds
MaxTime == 1        \* the wall clock runs over 0..MaxTime
MaxOps == 4         \* state-machine operations performed in one behaviour
MaxRequests == 2    \* oracle requests issued in one behaviour

\* ---------------------------------------------------------------- values
Undefined == "undefined"          \* JavaScript undefined (an optional parameter left out)
Null == [type |-> "null"]         \* JavaScript null

Times == 0..MaxTime
Rnd == {"k3f9"}                   \* outcomes of Math.random().toString(36).substring(2, 6)
GhostId == "inc_0_none"           \* a well-formed id under which nothing is ever stored

Titles == {"DB pool exhaustion", "Bad deploy"}
Reasons == {"timeouts unrelated to pool size"}
Summaries == {"Pool exhausted by retries"}

CreateIncidentParams ==
  [name : {"Checkout 500 Errors"}, severity : {"critical"},
   affected_services : {<<"checkout-api">>}, investigator : {"alice"},
   initial_description : {"Users report 500s at checkout"}]

\* ---------------------------------------------------------------- state
VARIABLES
  files,      \* the investigations directory: incident id -> stored JSON document
  clock,      \* the wall clock read by utcNow() and Date.now()
  opCount,    \* operations and tool executors run so far (bounds the behaviour)
  call,       \* the last state-machine call: [op |-> name, params |-> its parameters]
  ret,        \* its outcome: [kind |-> "return", value |-> v] or [kind |-> "throw", error, message]
  conversationHistory,  \* agent.ts: the process-wide sequence of turns [role, content]
  pc,         \* where sendMessage stands: "idle", "awaiting" (oracle request in flight),
              \* "executing" (awaiting executeTool for the block at blockIndex)
  response,   \* the oracle's last final message: [content, stop_reason]
  blockIndex, \* index in response.content of the tool_use block being executed
  toolResults,\* the tool_result entries collected for the current oracle turn
  events,     \* what the observer was told during the current oracle turn
  returned,   \* how the last sendMessage ended: returned text or thrown error
  requests,   \* oracle requests issued so far (bounds the behaviour)
  mcp,        \* mcp/client.ts: the module variable mcpClient and every client created
  inflight    \* operations of callers that run at the same time: caller -> where its
              \* operation stands, between its load and its save

storeVars == <<files, clock, call, ret>>
agentVars == <<conversationHistory, pc, response, blockIndex, toolResults, events,
               returned, requests>>
vars == <<files, clock, opCount, call, ret, conversationHistory, pc, response, blockIndex,
          toolResults, events, returned, requests, mcp, inflight>>

\* ---------------------------------------------------------------- helpers
Return(v) == [kind |-> "return", value |-> v]
Throw(e, m) == [kind |-> "throw", error |-> e, message |-> m]

\* JavaScript values other than a stored document carry their type: an object, an
\* array of objects, an array of strings, a string (null is Null above)
Obj(props) == [type |-> "object", props |-> props]
Arr(items) == [type |-> "array", items |-> items]
StrArr(strings) == [type |-> "array", strings |-> strings]
Bool(b) == [type |-> "boolean", bool |-> b]

Str(text) == [type |-> "string", text |-> text]

\* a record with one property set (added when absent), as an assignment o.k = v does
SetProp(o, k, v) == [x \in DOMAIN o \cup {k} |-> IF x = k THEN v ELSE o[x]]
HasProp(o, k) == k \in DOMAIN o

\* JSON.stringify drops the properties whose value is undefined (the only one a
\* record can hold is the optional value of a Finding). A stored document is kept
\* as the value tree that JSON.parse rebuilds from the written text.
RECURSIVE DropUndefinedSeq(_)
DropUndefined(o) == [k \in {x \in DOMAIN o : ~(x = "value" /\ o[x] = Undefined)} |-> o[k]]
DropUndefinedSeq(s) ==
  IF s = <<>> THEN <<>> ELSE <<DropUndefined(Head(s))>> \o DropUndefinedSeq(Tail(s))
Stringify(memory) == [memory EXCEPT !.findings = DropUndefinedSeq(@)]

\* ---------------------------------------------------------------- storage
loadMemory(incidentId) ==
  IF incidentId \in DOMAIN files THEN files[incidentId] ELSE Null

saveMemory(memory) ==
  [id \in DOMAIN files \cup {memory.incident_id} |->
     IF id = memory.incident_id THEN Stringify(memory) ELSE files[id]]

\* ---------------------------------------------------------------- operations.ts helpers
utcNow == clock

generateIncidentId(rnd) == "inc_" \o ToString(clock) \o "_" \o rnd

\* a generator that numbers only the hypotheses still in play, so that the id of a
\* ruled-out hypothesis is handed out again
generateHypothesisIdReusing(memory) ==
  LET live == {i \in 1..Len(memory.hypotheses) : memory.hypotheses[i].status # "ruled_out"}
  IN "hyp_" \o ToString(Cardinality(live) + 1)

generateHypothesisId(memory) ==
  LET count == Len(memory.hypotheses) + 1 IN "hyp_" \o ToString(count)

\* Array.prototype.find: the first element with the id, or undefined
FindHypothesis(memory, hypothesis_id) ==
  LET hit == {i \in 1..Len(memory.hypotheses) : memory.hypotheses[i].id = hypothesis_id}
  IN IF hit = {} THEN 0 ELSE CHOOSE i \in hit : \A j \in hit : i <= j

\* Array.prototype.sort with (a, b) => a.timestamp.localeCompare(b.timestamp):
\* a stable sort by timestamp
InsertByTimestamp(sorted, e) ==
  LET k == Cardinality({i \in 1..Len(sorted) : sorted[i].timestamp <= e.timestamp})
  IN SubSeq(sorted, 1, k) \o <<e>> \o SubSeq(sorted, k + 1, Len(sorted))

RECURSIVE SortFrom(_, _)
SortFrom(sorted, rest) ==
  IF rest = <<>> THEN sorted ELSE SortFrom(InsertByTimestamp(sorted, Head(rest)), Tail(rest))

\* variant: only the pushed element is put in its place
SortPushedOnly(timeline) ==
  InsertByTimestamp(SubSeq(timeline, 1, Len(timeline) - 1), timeline[Len(timeline)])
SortByTimestamp(timeline) == SortFrom(<<>>, timeline)

\* ---------------------------------------------------------------- mutations
\* The record each operation builds from the loaded one, before it is saved.

createIncidentRecord(params, id, now) ==
  [incident_id |-> id,
   incident_name |-> params.name,
   metadata |-> [started_at |-> now, status |-> "investigating",
                 severity |-> params.severity,
                 affected_services |-> params.affected_services,
                 investigator |-> params.investigator],
   tldr |-> [summary |-> params.initial_description, last_updated |-> now],
   timeline |-> <<[timestamp |-> now, event |-> "Investigation started",
                   source |-> "user", details |-> params.initial_description]>>,
   hypotheses |-> <<>>,
   findings |-> <<>>,
   ruled_out |-> <<>>]

addTimelineEventRecord(memory, params, now) ==
  LET newEvent == [timestamp |-> IF HasProp(params, "timestamp") THEN params.timestamp ELSE now,
                   event |-> params.event, source |-> params.source,
                   details |-> params.details]
  IN [memory EXCEPT !.timeline = SortByTimestamp(Append(@, newEvent))]

\* variant: the new hypothesis is put in front of the others
proposeHypothesisUnshifting(memory, params, now) ==
  LET hypothesis == [id |-> generateHypothesisId(memory),
                     title |-> params.title,
                     proposed_at |-> now,
                     proposed_by |-> params.proposed_by,
                     status |-> "investigating",
                     confidence |-> params.confidence,
                     supporting_evidence |-> params.initial_evidence,
                     counter_evidence |-> <<>>]
  IN [memory EXCEPT !.hypotheses = <<hypothesis>> \o @]

proposeHypothesisRecord(memory, params, now) ==
  LET hypothesis == [id |-> generateHypothesisId(memory),
                     title |-> params.title,
                     proposed_at |-> now,
                     proposed_by |-> params.proposed_by,
                     status |-> "investigating",
                     confidence |-> params.confidence,
                     supporting_evidence |-> params.initial_evidence,
                     counter_evidence |-> <<>>]
  IN [memory EXCEPT !.hypotheses = Append(@, hypothesis)]

\* variant: the supporting evidence is assigned from the parameter
updateHypothesisAssigning(memory, i, params) ==
  [memory EXCEPT !.hypotheses[i].supporting_evidence =
     IF HasProp(params, "add_supporting_evidence") THEN params.add_supporting_evidence
     ELSE <<>>]

\* variant: evidence already listed is not listed again
RECURSIVE WithoutListed(_, _)
WithoutListed(listed, given) ==
  IF given = <<>> THEN <<>>
  ELSE IF \E k \in 1..Len(listed) : listed[k] = Head(given)
       THEN WithoutListed(listed, Tail(given))
       ELSE <<Head(given)>> \o WithoutListed(Append(listed, Head(given)), Tail(given))

updateHypothesisDeduplicating(memory, i, params) ==
  LET h0 == memory.hypotheses[i]
      h1 == IF HasProp(params, "add_supporting_evidence")
            THEN [h0 EXCEPT !.supporting_evidence =
                    @ \o WithoutListed(@, params.add_supporting_evidence)]
            ELSE h0
      h2 == IF HasProp(params, "add_counter_evidence")
            THEN [h1 EXCEPT !.counter_evidence =
                    @ \o WithoutListed(@, params.add_counter_evidence)]
            ELSE h1
      h3 == IF HasProp(params, "new_confidence")
            THEN [h2 EXCEPT !.confidence = params.new_confidence]
            ELSE h2
  IN [memory EXCEPT !.hypotheses[i] = h3]

updateHypothesisRecord(memory, i, params) ==
  LET h0 == memory.hypotheses[i]
      h1 == IF HasProp(params, "add_supporting_evidence")
            THEN [h0 EXCEPT !.supporting_evidence = @ \o params.add_supporting_evidence]
            ELSE h0
      h2 == IF HasProp(params, "add_counter_evidence")
            THEN [h1 EXCEPT !.counter_evidence = @ \o params.add_counter_evidence]
            ELSE h1
      h3 == IF HasProp(params, "new_confidence")
            THEN [h2 EXCEPT !.confidence = params.new_confidence]
            ELSE h2
  IN [memory EXCEPT !.hypotheses[i] = h3]

\* variant: a hypothesis already ruled out gets no second audit entry
ruleOutHypothesisOnce(memory, i, params, now) ==
  LET h0 == memory.hypotheses[i]
      h1 == SetProp([h0 EXCEPT !.status = "ruled_out"], "ruled_out_at", now)
      entry == [hypothesis |-> h1.title, reason |-> params.reason, ruled_out_at |-> now]
  IN IF h0.status = "ruled_out"
     THEN [memory EXCEPT !.hypotheses[i] = h1]
     ELSE [memory EXCEPT !.hypotheses[i] = h1, !.ruled_out = Append(@, entry)]

\* variant: ruling out the confirmed root cause reopens the incident
ruleOutHypothesisReopening(memory, i, params, now) ==
  LET h0 == memory.hypotheses[i]
      h1 == SetProp([h0 EXCEPT !.status = "ruled_out"], "ruled_out_at", now)
      entry == [hypothesis |-> h1.title, reason |-> params.reason, ruled_out_at |-> now]
  IN [memory EXCEPT !.hypotheses[i] = h1, !.ruled_out = Append(@, entry),
                    !.metadata.status = IF h0.status = "confirmed_root_cause"
                                        THEN "investigating" ELSE @]

\* variant: the audit entry names the hypothesis by its id
ruleOutHypothesisAuditingId(memory, i, params, now) ==
  LET h0 == memory.hypotheses[i]
      h1 == SetProp([h0 EXCEPT !.status = "ruled_out"], "ruled_out_at", now)
      entry == [hypothesis |-> h1.id, reason |-> params.reason, ruled_out_at |-> now]
  IN [memory EXCEPT !.hypotheses[i] = h1, !.ruled_out = Append(@, entry)]

ruleOutHypothesisRecord(memory, i, params, now) ==
  LET h0 == memory.hypotheses[i]
      h1 == SetProp([h0 EXCEPT !.status = "ruled_out"], "ruled_out_at", now)
      entry == [hypothesis |-> h1.title, reason |-> params.reason, ruled_out_at |-> now]
  IN [memory EXCEPT !.hypotheses[i] = h1, !.ruled_out = Append(@, entry)]

\* t1 and t2 are the two readings of utcNow(), lines 223 and 227
\* variant: the timeline entry carries the rewritten summary as its details
confirmRootCauseDetailingSummary(memory, i, t1, t2) ==
  LET h0 == memory.hypotheses[i]
      h1 == [h0 EXCEPT !.status = "confirmed_root_cause"]
      summary == "Root cause confirmed: " \o h1.title
      entry == [timestamp |-> t2, event |-> "Root cause confirmed",
                source |-> "user", details |-> summary]
  IN [memory EXCEPT !.hypotheses[i] = h1,
                    !.metadata.status = "resolved",
                    !.tldr = [summary |-> summary, last_updated |-> t1],
                    !.timeline = Append(@, entry)]

confirmRootCauseRecord(memory, i, t1, t2) ==
  LET h0 == memory.hypotheses[i]
      h1 == [h0 EXCEPT !.status = "confirmed_root_cause"]
      entry == [timestamp |-> t2, event |-> "Root cause confirmed",
                source |-> "user", details |-> h1.title]
  IN [memory EXCEPT !.hypotheses[i] = h1,
                    !.metadata.status = "resolved",
                    !.tldr = [summary |-> "Root cause confirmed: " \o h1.title,
                              last_updated |-> t1],
                    !.timeline = Append(@, entry)]

\* variant: a finding with the description of an earlier one takes its place
addFindingUpserting(memory, params) ==
  LET finding == [type |-> params.type, description |-> params.description,
                  service |-> params.service, timestamp |-> params.timestamp,
                  value |-> IF HasProp(params, "value") THEN params.value ELSE Undefined]
      same == {k \in 1..Len(memory.findings) :
                 memory.findings[k].description = params.description}
  IN IF same = {} THEN [memory EXCEPT !.findings = Append(@, finding)]
     ELSE [memory EXCEPT !.findings[CHOOSE k \in same : TRUE] = finding]

addFindingRecord(memory, params) ==
  LET finding == [type |-> params.type, description |-> params.description,
                  service |-> params.service, timestamp |-> params.timestamp,
                  value |-> IF HasProp(params, "value") THEN params.value ELSE Undefined]
  IN [memory EXCEPT !.findings = Append(@, finding)]

\* variant: the rewrite of the summary is also entered in the timeline
updateTLDRLogging(memory, params, now) ==
  [memory EXCEPT !.tldr = [summary |-> params.summary, last_updated |-> now],
                 !.timeline = Append(@, [timestamp |-> now, event |-> "Summary updated",
                                         source |-> "user", details |-> params.summary])]

updateTLDRRecord(memory, params, now) ==
  [memory EXCEPT !.tldr = [summary |-> params.summary, last_updated |-> now]]

\* ---------------------------------------------------------------- operations
\* One action per exported operation of operations.ts. io is the answer of the
\* file system to the operation's reads and writes: "ok", or "EIO" for a failure
\* other than ENOENT, which loadMemory rethrows and saveMemory lets through.
IO == {"ok", "EIO"}

Call(op, params) == [op |-> op, params |-> params]
NoCall == Call("none", [incident_id |-> GhostId])

\* (IncidentAbsent answers null for a missing record, as loadMemory itself does)
IncidentAbsent(id) == Return(Null)
IncidentNotFound(id) == Throw("NotFound", "Incident " \o id \o " not found")
HypothesisNotFound(id) == Throw("NotFound", "Hypothesis " \o id \o " not found")
StorageError == Throw("Storage", "EIO: i/o error")

\* what every operation leaves behind: the directory, the clock, the call and its outcome
Outcome(newFiles, newClock, op, params, outcome) ==
  /\ files' = newFiles
  /\ clock' = newClock
  /\ call' = Call(op, params)
  /\ ret' = outcome

createIncident(params, rnd, io) ==
  LET now == utcNow
      memory == createIncidentRecord(params, generateIncidentId(rnd), now)
  IN IF io = "EIO"
     THEN Outcome(files, clock, "createIncident", params, StorageError)
     ELSE Outcome(saveMemory(memory), clock, "createIncident", params, Return(memory))

\* the record the operation loaded, and the index of the hypothesis find() returned
\* (0 for undefined)
Loaded(params) == loadMemory(params.incident_id)
Found(params) == FindHypothesis(Loaded(params), params.hypothesis_id)

\* load, then the mutation, then save: the shape of every mutating operation
\* whose only failure besides I/O is a missing incident; mutated is the record
\* after the mutation
LoadMutateSave(op, params, io, mutated) ==
  IF io = "EIO"
  THEN Outcome(files, clock, op, params, StorageError)
  ELSE IF Loaded(params) = Null
  THEN Outcome(files, clock, op, params, IncidentNotFound(params.incident_id))
  ELSE Outcome(saveMemory(mutated), clock, op, params, Return(mutated))

addTimelineEvent(params, io) ==
  LoadMutateSave("addTimelineEvent", params, io,
                 addTimelineEventRecord(Loaded(params), params, utcNow))

proposeHypothesis(params, io) ==
  LoadMutateSave("proposeHypothesis", params, io,
                 proposeHypothesisRecord(Loaded(params), params, utcNow))

addFinding(params, io) ==
  LoadMutateSave("addFinding", params, io, addFindingRecord(Loaded(params), params))

updateTLDR(params, io) ==
  LoadMutateSave("updateTLDR", params, io, updateTLDRRecord(Loaded(params), params, utcNow))

\* the operations on one hypothesis also fail when find() returns undefined;
\* newClock is the clock after the operation's last reading of it
LoadFindMutateSave(op, params, io, newClock, mutated) ==
  IF io = "EIO"
  THEN Outcome(files, clock, op, params, StorageError)
  ELSE IF Loaded(params) = Null
  THEN Outcome(files, clock, op, params, IncidentNotFound(params.incident_id))
  ELSE IF Found(params) = 0
  THEN Outcome(files, clock, op, params, HypothesisNotFound(params.hypothesis_id))
  ELSE Outcome(saveMemory(mutated), newClock, op, params, Return(mutated))

updateHypothesis(params, io) ==
  LoadFindMutateSave("updateHypothesis", params, io, clock,
                     updateHypothesisRecord(Loaded(params), Found(params), params))

ruleOutHypothesis(params, io) ==
  LoadFindMutateSave("ruleOutHypothesis", params, io, clock,
                     ruleOutHypothesisRecord(Loaded(params), Found(params), params, utcNow))

\* the clock may advance between the two readings of utcNow(); t2 is the second
\* variant: refused when a hypothesis of the record is confirmed already
confirmRootCauseExclusive(params, io, t2) ==
  IF /\ io = "ok" /\ Loaded(params) # Null
     /\ \E k \in 1..Len(Loaded(params).hypotheses) :
          Loaded(params).hypotheses[k].status = "confirmed_root_cause"
  THEN Outcome(files, clock, "confirmRootCause", params,
               Throw("Conflict", "Incident " \o params.incident_id \o " already resolved"))
  ELSE LoadFindMutateSave("confirmRootCause", params, io, t2,
                          confirmRootCauseRecord(Loaded(params), Found(params), utcNow, t2))

confirmRootCause(params, io, t2) ==
  LoadFindMutateSave("confirmRootCause", params, io, t2,
                     confirmRootCauseRecord(Loaded(params), Found(params), utcNow, t2))

\* read operations
getIncident(incidentId, io) ==
  Outcome(files, clock, "getIncident", [incident_id |-> incidentId],
          IF io = "EIO" THEN StorageError ELSE Return(loadMemory(incidentId)))

getHypotheses(incidentId, io) ==
  LET memory == loadMemory(incidentId)
  IN Outcome(files, clock, "getHypotheses", [incident_id |-> incidentId],
             IF io = "EIO" THEN StorageError
             ELSE IF memory = Null THEN IncidentNotFound(incidentId)
             ELSE Return(Arr(memory.hypotheses)))

getTimeline(incidentId, io) ==
  LET memory == loadMemory(incidentId)
  IN Outcome(files, clock, "getTimeline", [incident_id |-> incidentId],
             IF io = "EIO" THEN StorageError
             ELSE IF memory = Null THEN IncidentNotFound(incidentId)
             ELSE Return(Arr(memory.timeline)))

\* ---------------------------------------------------------------- callers' inputs
IncidentIds == DOMAIN files \cup {GhostId}

GhostHypothesisId == "hyp_0"
HypothesisIds(incidentId) ==
  {GhostHypothesisId} \cup
  (IF incidentId \in DOMAIN files
   THEN {files[incidentId].hypotheses[i].id : i \in 1..Len(files[incidentId].hypotheses)}
   ELSE {})

WithOptional(base, key, values) ==
  base \cup {SetProp(b, key, v) : b \in base, v \in values}

AddTimelineEventParams ==
  WithOptional([incident_id : IncidentIds, event : {"Error spike"}, source : {"logs"},
                details : {"5xx rate at 40%"}],
               "timestamp", Times)

ProposeHypothesisParams ==
  [incident_id : IncidentIds, title : Titles, proposed_by : {"agent"},
   initial_evidence : {<<"connection timeouts">>}, confidence : {"medium"}]

HypothesisRefs ==
  UNION {{[incident_id |-> id, hypothesis_id |-> h] : h \in HypothesisIds(id)} :
         id \in IncidentIds}

UpdateHypothesisParams ==
  LET some == {r \in HypothesisRefs : r.hypothesis_id # GhostHypothesisId}
  IN HypothesisRefs
     \cup WithOptional(some, "add_supporting_evidence",
                     {<<"pool at max", "connection timeouts">>})
     \cup WithOptional(some, "add_counter_evidence", {<<"pool size raised, errors persist">>})
     \cup WithOptional(some, "new_confidence", {"high"})

RuleOutHypothesisParams ==
  {SetProp(r, "reason", x) : r \in HypothesisRefs, x \in Reasons}

ConfirmRootCauseParams == HypothesisRefs

AddFindingParams ==
  WithOptional([incident_id : IncidentIds, type : {"error"},
                description : {"HTTP 500 from checkout-api"}, service : {"checkout-api"},
                timestamp : {0}],
               "value", {"412"})

UpdateTLDRParams == [incident_id : IncidentIds, summary : Summaries]

\* ---------------------------------------------------------------- the state machine, called in sequence
\* callers whose operations may run at the same time, and a caller with no
\* operation in flight
Callers == {"a", "b"}
\* mcp/client.ts lines 10-11 at load: mcpClient is null (0) and no client exists;
\* clients holds, for every client created, how far its connection has come
NoClient == [mcpClient |-> 0, clients |-> <<>>]
Idle == [pc |-> "idle"]
NoneInFlight == [c \in Callers |-> Idle]

NoResponse == [content |-> <<>>, stop_reason |-> "none"]

Init ==
  /\ files = <<>>
  /\ clock = 0
  /\ opCount = 0
  /\ call = NoCall
  /\ ret = Return(Null)
  /\ conversationHistory = <<>>
  /\ pc = "idle"
  /\ response = NoResponse
  /\ blockIndex = 0
  /\ toolResults = <<>>
  /\ events = <<>>
  /\ returned = Return("")
  /\ requests = 0
  /\ mcp = NoClient
  /\ inflight = NoneInFlight

Counted ==
  opCount < MaxOps /\ opCount' = opCount + 1 /\ UNCHANGED agentVars /\ UNCHANGED <<mcp, inflight>>

Tick ==
  /\ clock < MaxTime
  /\ clock' = clock + 1
  /\ UNCHANGED <<files, opCount, call, ret>>
  /\ UNCHANGED agentVars
  /\ UNCHANGED <<mcp, inflight>>

CallCreateIncident ==
  Counted /\ \E params \in CreateIncidentParams, rnd \in Rnd, io \in IO : createIncident(params, rnd, io)

CallAddTimelineEvent ==
  Counted /\ \E params \in AddTimelineEventParams, io \in IO : addTimelineEvent(params, io)

CallProposeHypothesis ==
  Counted /\ \E params \in ProposeHypothesisParams, io \in IO : proposeHypothesis(params, io)

CallUpdateHypothesis ==
  Counted /\ \E params \in UpdateHypothesisParams, io \in IO : updateHypothesis(params, io)

CallRuleOutHypothesis ==
  Counted /\ \E params \in RuleOutHypothesisParams, io \in IO : ruleOutHypothesis(params, io)

CallConfirmRootCause ==
  Counted /\ \E params \in ConfirmRootCauseParams, io \in IO,
                t2 \in {t \in Times : clock <= t /\ t <= clock + 1} :
               confirmRootCause(params, io, t2)

CallAddFinding ==
  Counted /\ \E params \in AddFindingParams, io \in IO : addFinding(params, io)

CallUpdateTLDR ==
  Counted /\ \E params \in UpdateTLDRParams, io \in IO : updateTLDR(params, io)

CallGetIncident ==
  Counted /\ \E id \in IncidentIds, io \in IO : getIncident(id, io)

CallGetHypotheses ==
  Counted /\ \E id \in IncidentIds, io \in IO : getHypotheses(id, io)

CallGetTimeline ==
  Counted /\ \E id \in IncidentIds, io \in IO : getTimeline(id, io)

Next ==
  \/ Tick
  \/ CallCreateIncident
  \/ CallAddTimelineEvent
  \/ CallProposeHypothesis
  \/ CallUpdateHypothesis
  \/ CallRuleOutHypothesis
  \/ CallConfirmRootCause
  \/ CallAddFinding
  \/ CallUpdateTLDR
  \/ CallGetIncident
  \/ CallGetHypotheses
  \/ CallGetTimeline

Spec == Init /\ [][Next]_vars

\* ================================================================ the agent
\* ---------------------------------------------------------------- storage.ts: listIncidents
RECURSIVE SetToSeq(_)
SetToSeq(S) == IF S = {} THEN <<>> ELSE LET x == CHOOSE x \in S : TRUE IN <<x>> \o SetToSeq(S \ {x})

\* readdir, the names ending in .json with the suffix removed; any failure answers []
listIncidents(io) ==
  Outcome(files, clock, "listIncidents", <<>>,
          Return(StrArr(IF io = "EIO" THEN <<>> ELSE SetToSeq(DOMAIN files))))

\* access(filePath): true when it resolves, false on any rejection
memoryExists(incidentId, io) ==
  Outcome(files, clock, "memoryExists", [incident_id |-> incidentId],
          Return(Bool(io = "ok" /\ incidentId \in DOMAIN files)))

\* ---------------------------------------------------------------- memory-tools.ts
memoryToolNames ==
  {"create_incident", "get_incident", "list_incidents", "add_timeline_event",
   "propose_hypothesis", "update_hypothesis", "rule_out_hypothesis", "confirm_root_cause",
   "add_finding", "update_tldr", "get_hypotheses", "get_timeline"}

UnknownMemoryTool(toolName) == Throw("UnknownTool", "Unknown memory tool: " \o toolName)

executeMemoryTool(toolName, toolInput, io, t2) ==
  CASE toolName = "create_incident" -> \E rnd \in Rnd : createIncident(toolInput, rnd, io)
    [] toolName = "get_incident" -> getIncident(toolInput.incident_id, io)
    [] toolName = "list_incidents" -> listIncidents(io)
    [] toolName = "add_timeline_event" -> addTimelineEvent(toolInput, io)
    [] toolName = "propose_hypothesis" -> proposeHypothesis(toolInput, io)
    [] toolName = "update_hypothesis" -> updateHypothesis(toolInput, io)
    [] toolName = "rule_out_hypothesis" -> ruleOutHypothesis(toolInput, io)
    [] toolName = "confirm_root_cause" -> confirmRootCause(toolInput, io, t2)
    [] toolName = "add_finding" -> addFinding(toolInput, io)
    [] toolName = "update_tldr" -> updateTLDR(toolInput, io)
    [] toolName = "get_hypotheses" -> getHypotheses(toolInput.incident_id, io)
    [] toolName = "get_timeline" -> getTimeline(toolInput.incident_id, io)
    [] OTHER -> Outcome(files, clock, "executeMemoryTool", toolInput, UnknownMemoryTool(toolName))

\* the value executeMemoryTool resolves to, with its JavaScript type: the list
\* operations resolve to arrays, the others to the record or null
MemoryToolValue(toolName, value) ==
  IF toolName \in {"list_incidents", "get_hypotheses", "get_timeline"} THEN value
  ELSE IF value = Null THEN Null
  ELSE Obj(value)

\* ---------------------------------------------------------------- mcp/client.ts: executeMcpTool
\* The log-query collaborator is external: a call of executeMcpTool ends in one of
\* plain text, text that parses to a JSON object (with or without an error
\* property), or an exception (no connection, a tool the server does not have).
McpOutcomes ==
  {Return(Str("3 entries, newest first")),
   Return(Obj([entries |-> <<"ERROR pool timeout">>])),
   Return(Obj([error |-> "PERMISSION_DENIED"])),
   Throw("ToolExecutionFailure", "MCP error -32602: tool not found")}

executeMcpTool(toolName, toolArgs, outcome) ==
  Outcome(files, clock, "executeMcpTool", [name |-> toolName, arguments |-> toolArgs], outcome)

\* ---------------------------------------------------------------- agent.ts
TRUNCATION_NOTICE == "\n\n[Response truncated due to length]"

Text(text) == [type |-> "text", text |-> text]
ToolUse(id, name, input) == [type |-> "tool_use", id |-> id, name |-> name, input |-> input]

\* a turn of the conversation; a string content is the API's shorthand for one
\* text block and is kept as that block
UserTurn(content) == [role |-> "user", content |-> content]
\* (AssistantTextTurn keeps the text blocks of the response only)
AssistantTextTurn(content) ==
  [role |-> "assistant", content |-> SelectSeq(content, LAMBDA block : block.type = "text")]

AssistantTurn(content) == [role |-> "assistant", content |-> content]

\* extractText: the text blocks, joined by newlines
RECURSIVE JoinText(_)
JoinText(blocks) ==
  IF blocks = <<>> THEN ""
  ELSE IF Len(blocks) = 1 THEN blocks[1].text
  ELSE blocks[1].text \o "\n" \o JoinText(Tail(blocks))
extractText(content) == JoinText(SelectSeq(content, LAMBDA block : block.type = "text"))

\* the catch of executeTool: a thrown error becomes the result {error: message};
\* what executeTool resolves to is never a rejection (CaughtRethrown is executeTool
\* without its try/catch)
ErrorObject(outcome) == Return(Obj([error |-> outcome.message]))
CaughtRethrown(toolName, outcome) ==
  IF outcome.kind = "throw" THEN outcome
  ELSE IF toolName \in memoryToolNames THEN Return(MemoryToolValue(toolName, outcome.value))
  ELSE outcome
Caught(toolName, outcome) ==
  IF outcome.kind = "throw" THEN ErrorObject(outcome)
  ELSE IF toolName \in memoryToolNames THEN Return(MemoryToolValue(toolName, outcome.value))
  ELSE outcome

\* lines 101-104: typeof result === "object" && result !== null && "error" in result
\* (IsErrorResultAnyObject leaves out the last conjunct)
IsErrorResultAnyObject(result) == result.type \in {"object", "array"}
IsErrorResult(result) ==
  /\ result.type \in {"object", "array", "null"}
  /\ result # Null
  /\ result.type = "object" /\ HasProp(result.props, "error")

\* lines 111-112: a string goes through verbatim, anything else as its JSON text
JSONStringify(result) ==
  IF result.type = "object" /\ HasProp(result.props, "findings")
  THEN [json |-> Obj(Stringify(result.props))]
  ELSE [json |-> result]
ToolResultContent(result) ==
  IF result.type = "string" THEN [text |-> result.text] ELSE JSONStringify(result)

\* a tool_result that carries the number of the call under the message's id prefix
\* instead of the id of the tool_use block
ToolResultBlockMessageId(block, result) ==
  [type |-> "tool_result", tool_use_id |-> <<"msg", block.id[2]>>,
   content |-> ToolResultContent(result)]
ToolResultBlock(block, result) ==
  [type |-> "tool_result", tool_use_id |-> block.id, content |-> ToolResultContent(result)]

StartEvent(block) == [ev |-> "onToolStart", name |-> block.name, input |-> block.input]
EndEvent(block, result, isError) ==
  [ev |-> "onToolEnd", name |-> block.name, result |-> result, isError |-> isError]

\* the index of the first tool_use block of content after position from, 0 if none
NextToolUse(content, from) ==
  LET later == {i \in (from + 1)..Len(content) : content[i].type = "tool_use"}
  IN IF later = {} THEN 0 ELSE CHOOSE i \in later : \A j \in later : i <= j

\* The for loop of lines 94-115 from the block after position from, up to its next
\* await: either the next tool_use block is announced and executeTool awaited, or
\* the loop is over, the collected results are pushed as one user turn and the
\* next oracle request is issued.
ContinueLoop(history, content, from, results, evts) ==
  LET next == NextToolUse(content, from)
  IN IF next # 0
     THEN /\ conversationHistory' = history
          /\ pc' = "executing"
          /\ blockIndex' = next
          /\ toolResults' = results
          /\ events' = Append(evts, StartEvent(content[next]))
          /\ requests' = requests
          /\ returned' = returned
     ELSE /\ conversationHistory' = Append(history, UserTurn(results))
          /\ pc' = "awaiting"
          /\ blockIndex' = 0
          /\ toolResults' = <<>>
          /\ events' = evts
          /\ requests' = requests + 1
          /\ returned' = returned

\* sendMessage settles: it returns text or rejects with an error
Settle(history, outcome) ==
  /\ conversationHistory' = history
  /\ pc' = "idle"
  /\ blockIndex' = 0
  /\ toolResults' = <<>>
  /\ events' = <<>>
  /\ requests' = requests
  /\ returned' = outcome

\* ---------------------------------------------------------------- the completion oracle
UserMessages == {"Checkout is returning 500s"}

\* correlation ids are the oracle's: fresh for every tool_use block it emits
RECURSIVE CountToolUses(_)
CountToolUses(history) ==
  IF history = <<>> THEN 0
  ELSE Len(SelectSeq(Head(history).content, LAMBDA block : block.type = "tool_use"))
       + CountToolUses(Tail(history))
FreshId(k) == <<"toolu", CountToolUses(conversationHistory) + k>>

\* the tool calls the oracle asks for: every memory tool, a tool of the log-query
\* catalog and a name that is in no catalog
EmptyInput == [k \in {} |-> Undefined]
LiveIds == DOMAIN files
LiveRefs == {r \in HypothesisRefs : r.incident_id \in LiveIds /\ r.hypothesis_id # GhostHypothesisId}
MemoryCalls ==
  {[name |-> "create_incident", input |-> i] : i \in CreateIncidentParams}
  \cup {[name |-> "get_incident", input |-> [incident_id |-> id]] : id \in IncidentIds}
  \cup {[name |-> "list_incidents", input |-> EmptyInput]}
  \cup {[name |-> "add_timeline_event", input |-> i] :
          i \in {p \in AddTimelineEventParams :
                   p.incident_id \in LiveIds /\ (HasProp(p, "timestamp") => p.timestamp = MaxTime)}}
  \cup {[name |-> "propose_hypothesis", input |-> i] :
          i \in {p \in ProposeHypothesisParams :
                   p.incident_id \in LiveIds /\ p.title = "DB pool exhaustion"}}
  \cup {[name |-> "update_hypothesis", input |-> SetProp(r, "new_confidence", "high")] :
          r \in LiveRefs}
  \cup {[name |-> "rule_out_hypothesis", input |-> i] : i \in RuleOutHypothesisParams}
  \cup {[name |-> "confirm_root_cause", input |-> r] : r \in LiveRefs}
  \cup {[name |-> "add_finding", input |-> i] :
          i \in {p \in AddFindingParams : p.incident_id \in LiveIds /\ ~HasProp(p, "value")}}
  \cup {[name |-> "update_tldr", input |-> i] :
          i \in {p \in UpdateTLDRParams : p.incident_id \in LiveIds}}
  \cup {[name |-> "get_hypotheses", input |-> [incident_id |-> id]] : id \in LiveIds}
  \cup {[name |-> "get_timeline", input |-> [incident_id |-> id]] : id \in IncidentIds}
\* the catalog getMcpTools() obtained from the log-query collaborator at start-up;
\* nothing keeps the collaborator from offering a name of the memory catalog
mcpToolNames == {"list_log_entries", "list_incidents"}
ExternalCalls ==
  {[name |-> "list_log_entries", input |-> [filter |-> "severity>=ERROR"]],
   [name |-> "restart_service", input |-> EmptyInput]}
ToolCalls == MemoryCalls \cup ExternalCalls

\* calls asked for together in one response: one that fails or not, then another
FirstOfTwo ==
  {c \in ToolCalls : \/ c.name \in {"restart_service", "create_incident"}
                     \/ c.name = "get_timeline" /\ c.input.incident_id = GhostId}
SecondOfTwo == {c \in ToolCalls : c.name \in {"list_incidents", "list_log_entries"}}
TruncatedCalls == {c \in ToolCalls : c.name = "list_incidents"}

OneCall(c) == <<ToolUse(FreshId(1), c.name, c.input)>>
TwoCalls(c1, c2) ==
  <<Text("Checking."), ToolUse(FreshId(1), c1.name, c1.input),
    ToolUse(FreshId(2), c2.name, c2.input)>>

OracleResponses ==
  {[content |-> c, stop_reason |-> "end_turn"] :
     c \in {<<Text("Root cause: pool exhaustion.")>>,
            <<Text("Root cause: pool exhaustion."), Text("Shall I confirm it?")>>}}
  \cup {[content |-> OneCall(c), stop_reason |-> "tool_use"] : c \in ToolCalls}
  \cup {[content |-> TwoCalls(c1, c2), stop_reason |-> "tool_use"] :
          c1 \in FirstOfTwo, c2 \in SecondOfTwo}
  \cup {[content |-> c, stop_reason |-> sr] :
          c \in {<<Text("Looking at the")>>} \cup
                {<<Text("Looking at the")>> \o OneCall(t) : t \in TruncatedCalls},
          sr \in {"max_tokens", "pause_turn"}}

\* ---------------------------------------------------------------- sendMessage
\* line 91: the only stop reason that sends the loop round again
\* (ContinuesLoopUnlessEndTurn loops on everything but end_turn)
ContinuesLoopUnlessEndTurn(stop_reason) == stop_reason # "end_turn"
ContinuesLoop(stop_reason) == stop_reason = "tool_use"

\* lines 86-88 and 124-133: what sendMessage returns for the other stop reasons
ReturnedText(r) ==
  IF r.stop_reason = "max_tokens" THEN extractText(r.content) \o TRUNCATION_NOTICE
  ELSE extractText(r.content)

\* line 66 and the first pass through lines 69-75: the user's message is pushed and
\* the request carrying conversationHistory is issued
SendMessage ==
  /\ pc = "idle"
  /\ requests < MaxRequests
  /\ \E userMessage \in UserMessages :
       conversationHistory' = Append(conversationHistory, UserTurn(<<Text(userMessage)>>))
  /\ pc' = "awaiting"
  /\ requests' = requests + 1
  /\ UNCHANGED <<response, blockIndex, toolResults, events, returned>>
  /\ UNCHANGED <<files, clock, opCount, call, ret, mcp, inflight>>

\* lines 81-134 up to the next await: finalMessage() resolves, the assistant turn
\* is pushed and the stop reason decides. The oracle asks for tools only while
\* the behaviour has requests left to answer them with.
OracleResponds ==
  /\ pc = "awaiting"
  /\ \E r \in OracleResponses :
       /\ r.stop_reason = "tool_use" => requests < MaxRequests
       /\ response' = r
       /\ LET history == Append(conversationHistory, AssistantTurn(r.content))
          IN IF ContinuesLoop(r.stop_reason)
             THEN ContinueLoop(history, r.content, 0, <<>>, <<>>)
             ELSE Settle(history, Return(ReturnedText(r)))
  /\ UNCHANGED <<files, clock, opCount, call, ret, mcp, inflight>>

\* finalMessage() rejects (no connection, an API error): sendMessage rejects with it
OracleFails ==
  /\ pc = "awaiting"
  /\ Settle(conversationHistory, Throw("OracleFailure", "APIConnectionError"))
  /\ UNCHANGED <<response, files, clock, opCount, call, ret, mcp, inflight>>

\* lines 157-170: executeTool routes by name; what it awaits changes the store
\* (executeToolExternalFirst asks the external catalog first)
executeToolExternalFirst(toolName, toolInput) ==
  IF toolName \in mcpToolNames \/ toolName \notin memoryToolNames
  THEN \E outcome \in McpOutcomes : executeMcpTool(toolName, toolInput, outcome)
  ELSE \E io \in IO, t2 \in {t \in Times : clock <= t /\ t <= clock + 1} :
         executeMemoryTool(toolName, toolInput, io, t2)
executeTool(toolName, toolInput) ==
  IF toolName \in memoryToolNames
  THEN \E io \in IO, t2 \in {t \in Times : clock <= t /\ t <= clock + 1} :
         executeMemoryTool(toolName, toolInput, io, t2)
  ELSE \E outcome \in McpOutcomes : executeMcpTool(toolName, toolInput, outcome)

\* lines 100-115: the awaited executeTool settles; the observer is told, the
\* tool_result is collected and the loop goes on
ToolReturns ==
  /\ pc = "executing"
  /\ LET block == response.content[blockIndex]
     IN /\ executeTool(block.name, block.input)
        /\ LET settled == Caught(block.name, ret')
           IN IF settled.kind = "throw"
              THEN Settle(conversationHistory, settled)
              ELSE ContinueLoop(conversationHistory, response.content, blockIndex,
                                Append(toolResults, ToolResultBlock(block, settled.value)),
                                Append(events, EndEvent(block, settled.value,
                                                        IsErrorResult(settled.value))))
  /\ opCount' = opCount + 1
  /\ UNCHANGED <<response, mcp, inflight>>

NextAgent ==
  \/ Tick
  \/ SendMessage
  \/ OracleResponds
  \/ OracleFails
  \/ ToolReturns

\* The investigations directory outlives the process: the agent starts on an empty
\* directory or on what an earlier session left behind, here an incident with one
\* hypothesis under investigation.
EarlierSession ==
  LET params == CHOOSE p \in CreateIncidentParams : TRUE
      id == "inc_0_q7x2"
      created == createIncidentRecord(params, id, 0)
      proposed == [created EXCEPT !.hypotheses =
                     <<[id |-> "hyp_1", title |-> "DB pool exhaustion", proposed_at |-> 0,
                        proposed_by |-> "agent", status |-> "investigating",
                        confidence |-> "medium",
                        supporting_evidence |-> <<"connection timeouts">>,
                        counter_evidence |-> <<>>]>>]
  IN (id :> Stringify(proposed))

InitAgent ==
  /\ files \in {<<>>, EarlierSession}
  /\ clock = 0
  /\ opCount = 0
  /\ call = NoCall
  /\ ret = Return(Null)
  /\ conversationHistory = <<>>
  /\ pc = "idle"
  /\ response = NoResponse
  /\ blockIndex = 0
  /\ toolResults = <<>>
  /\ events = <<>>
  /\ returned = Return("")
  /\ requests = 0
  /\ mcp = NoClient
  /\ inflight = NoneInFlight

SpecAgent == InitAgent /\ [][NextAgent]_vars

\* The same loop when every oracle request is answered and every tool call
\* returns: a pending finalMessage() or executeTool() eventually settles. The
\* clock moves only between the two readings of confirmRootCause.
NextAgentLive ==
  \/ SendMessage
  \/ OracleResponds
  \/ ToolReturns

progress == <<pc, blockIndex, requests>>
SpecAgentLive ==
  InitAgent /\ [][NextAgentLive]_vars
            /\ WF_progress(OracleResponds) /\ WF_progress(ToolReturns)

\* ================================================================ operations that overlap
\* An operation is not one step: it awaits loadMemory, mutates the record it was
\* given and awaits saveMemory (operations.ts:249-263 for addFinding, 117-134 for
\* proposeHypothesis). Between the two awaits the operation of another caller (a
\* second process on the same directory, or a second call not awaited by the first
\* one's caller) can load and save. Each caller performs one operation on a
\* stored incident and leaves a mark of its own in the record.
ConcurrentCalls(c) ==
  LET seen == IF c = "a" THEN "HTTP 500 from checkout-api" ELSE "pool at max"
      idea == IF c = "a" THEN "Bad deploy" ELSE "Cache stampede"
  IN {Call("addFinding",
           [incident_id |-> id, type |-> "error", description |-> seen,
            service |-> "checkout-api", timestamp |-> 0]) : id \in DOMAIN files}
     \cup {Call("proposeHypothesis",
                [incident_id |-> id, title |-> idea, proposed_by |-> "agent",
                 initial_evidence |-> <<"connection timeouts">>, confidence |-> "medium"]) :
             id \in DOMAIN files}

Mutated(k, memory) ==
  IF k.op = "addFinding" THEN addFindingRecord(memory, k.params)
  ELSE proposeHypothesisRecord(memory, k.params, utcNow)

\* what saveMemory writes: the whole document the caller holds, serialized
\* (WrittenRebased applies the caller's mutation to the document stored at the
\* time of the write instead)
WrittenRebased(c) == Mutated(inflight[c].call, loadMemory(inflight[c].call.params.incident_id))
\* (WrittenMerged adds the caller's new entry to the document stored at the time
\* of the write and keeps the id the entry was given)
WrittenMerged(c) ==
  LET k == inflight[c].call
      stored == loadMemory(k.params.incident_id)
      mine == inflight[c].memory
  IN IF k.op = "proposeHypothesis"
     THEN [stored EXCEPT !.hypotheses = Append(@, mine.hypotheses[Len(mine.hypotheses)])]
     ELSE [stored EXCEPT !.findings = Append(@, mine.findings[Len(mine.findings)])]

Written(c) == inflight[c].memory

\* the operation of caller c settles as the (opCount + 1)-th one
Finish(c, k, loadedAt, newFiles, outcome) ==
  /\ inflight' = [inflight EXCEPT ![c] = [pc |-> "done", call |-> k, loadedAt |-> loadedAt,
                                          savedAt |-> opCount + 1, outcome |-> outcome]]
  /\ opCount' = opCount + 1
  /\ Outcome(newFiles, clock, k.op, k.params, outcome)

\* the caller's operation is called and its loadMemory settles; on success the
\* mutation is applied at once and saveMemory is awaited
LoadResolves(c) ==
  /\ inflight[c] = Idle
  /\ \E k \in ConcurrentCalls(c), io \in IO :
       LET memory == loadMemory(k.params.incident_id)
       IN IF io = "EIO" THEN Finish(c, k, opCount, files, StorageError)
          ELSE IF memory = Null
          THEN Finish(c, k, opCount, files, IncidentNotFound(k.params.incident_id))
          ELSE /\ inflight' = [inflight EXCEPT ![c] =
                                 [pc |-> "saving", call |-> k, loadedAt |-> opCount,
                                  memory |-> Mutated(k, memory)]]
               /\ UNCHANGED <<files, clock, opCount, call, ret>>
  /\ UNCHANGED agentVars
  /\ UNCHANGED mcp

\* the caller's saveMemory settles: the file is overwritten, or the write fails
SaveResolves(c) ==
  /\ inflight[c].pc = "saving"
  /\ \E io \in IO :
       IF io = "EIO"
       THEN Finish(c, inflight[c].call, inflight[c].loadedAt, files, StorageError)
       ELSE Finish(c, inflight[c].call, inflight[c].loadedAt, saveMemory(Written(c)),
                   Return(inflight[c].memory))
  /\ UNCHANGED agentVars
  /\ UNCHANGED mcp

InitConcurrent ==
  /\ files = EarlierSession
  /\ clock = 0
  /\ opCount = 0
  /\ call = NoCall
  /\ ret = Return(Null)
  /\ conversationHistory = <<>>
  /\ pc = "idle"
  /\ response = NoResponse
  /\ blockIndex = 0
  /\ toolResults = <<>>
  /\ events = <<>>
  /\ returned = Return("")
  /\ requests = 0
  /\ mcp = NoClient
  /\ inflight = NoneInFlight

NextConcurrent ==
  \/ Tick
  \/ \E c \in Callers : LoadResolves(c)
  \/ \E c \in Callers : SaveResolves(c)

SpecConcurrent == InitConcurrent /\ [][NextConcurrent]_vars

\* ---------------------------------------------------------------- sendMessage calls that overlap
\* sendMessage is async and nothing in agent.ts keeps a caller from calling it
\* again while an earlier call awaits finalMessage() or executeTool(): the calls
\* then run against the one module-level conversationHistory (agent.ts:39). Each
\* caller makes one call; what the call keeps in its own variables (response,
\* the block being executed) is in inflight, with the positions of the history it
\* pushed to, the history its last request carried, and whether another call was
\* in flight at any time during it.
InFlight(c) == inflight[c].pc \in {"awaiting", "executing"}

\* conversationHistory.push(turn): the turn goes to the end of the shared array
\* (PushedFirst puts it at the front)
PushedFirst(history, turn) == <<turn>> \o history
Pushed(history, turn) == Append(history, turn)

OverlapMessages(c) == IF c = "a" THEN "Checkout is returning 500s" ELSE "Any deploys today?"

\* what the oracle answers an overlapping call with: a final text, or one call
\* of list_incidents
OverlapResponses ==
  {[content |-> <<Text("Root cause: pool exhaustion.")>>, stop_reason |-> "end_turn"],
   [content |-> <<ToolUse(FreshId(1), "list_incidents", EmptyInput)>>,
    stop_reason |-> "tool_use"]}

\* the caller awaits a request issued on the history as it stands
Requesting(c, history, positions, rounds, overlapped) ==
  [pc |-> "awaiting", turns |-> positions, request |-> history, rounds |-> rounds,
   overlapped |-> overlapped]

\* a call that starts or runs while c is in flight has overlapped with c
Overlapping(c, d, now) ==
  IF d # c /\ InFlight(d) /\ now THEN [inflight[d] EXCEPT !.overlapped = TRUE] ELSE inflight[d]

\* line 66 and lines 69-75: the user's message is pushed, the request is issued
SendMessageOf(c) ==
  /\ inflight[c] = Idle
  /\ LET history == Pushed(conversationHistory, UserTurn(<<Text(OverlapMessages(c))>>))
         others == \E d \in Callers \ {c} : InFlight(d)
     IN /\ conversationHistory' = history
        /\ inflight' = [d \in Callers |->
                          IF d = c THEN Requesting(c, history, <<Len(history)>>, 1, others)
                          ELSE Overlapping(c, d, TRUE)]
  /\ UNCHANGED <<files, clock, opCount, call, ret, mcp>>
  /\ UNCHANGED <<pc, response, blockIndex, toolResults, events, returned, requests>>

\* lines 81-92 and 124-133: finalMessage() resolves, the assistant turn is pushed;
\* on tool_use the one block is executed next, otherwise the call returns
OracleRespondsTo(c) ==
  /\ inflight[c].pc = "awaiting"
  /\ \E r \in OverlapResponses :
       /\ r.stop_reason = "tool_use" => inflight[c].rounds < MaxRequests
       /\ LET history == Pushed(conversationHistory, AssistantTurn(r.content))
              positions == Append(inflight[c].turns, Len(history))
          IN /\ conversationHistory' = history
             /\ inflight' = [inflight EXCEPT ![c] =
                  IF ContinuesLoop(r.stop_reason)
                  THEN [pc |-> "executing", turns |-> positions,
                        request |-> inflight[c].request, rounds |-> inflight[c].rounds,
                        overlapped |-> inflight[c].overlapped, response |-> r]
                  ELSE [pc |-> "done", turns |-> positions,
                        request |-> inflight[c].request, rounds |-> inflight[c].rounds,
                        overlapped |-> inflight[c].overlapped,
                        outcome |-> Return(ReturnedText(r))]]
  /\ UNCHANGED <<files, clock, opCount, call, ret, mcp>>
  /\ UNCHANGED <<pc, response, blockIndex, toolResults, events, returned, requests>>

\* finalMessage() rejects: the call rejects, what it pushed stays
OracleFailsFor(c) ==
  /\ inflight[c].pc = "awaiting"
  /\ inflight' = [inflight EXCEPT ![c] =
       [pc |-> "done", turns |-> inflight[c].turns, request |-> inflight[c].request,
        rounds |-> inflight[c].rounds, overlapped |-> inflight[c].overlapped,
        outcome |-> Throw("OracleFailure", "APIConnectionError")]]
  /\ UNCHANGED <<files, clock, opCount, call, ret, mcp>>
  /\ UNCHANGED agentVars

\* lines 100-121: executeTool settles, the tool_result turn is pushed and the next
\* request is issued
ToolReturnsTo(c) ==
  /\ inflight[c].pc = "executing"
  /\ LET block == inflight[c].response.content[1]
     IN /\ executeTool(block.name, block.input)
        /\ LET settled == Caught(block.name, ret')
               history == Pushed(conversationHistory,
                                 UserTurn(<<ToolResultBlock(block, settled.value)>>))
           IN /\ conversationHistory' = history
              /\ inflight' = [inflight EXCEPT ![c] =
                   Requesting(c, history, Append(inflight[c].turns, Len(history)),
                              inflight[c].rounds + 1, inflight[c].overlapped)]
  /\ opCount' = opCount + 1
  /\ UNCHANGED <<pc, response, blockIndex, toolResults, events, returned, requests, mcp>>

InitOverlap ==
  /\ files = EarlierSession
  /\ clock = 0
  /\ opCount = 0
  /\ call = NoCall
  /\ ret = Return(Null)
  /\ conversationHistory = <<>>
  /\ pc = "idle"
  /\ response = NoResponse
  /\ blockIndex = 0
  /\ toolResults = <<>>
  /\ events = <<>>
  /\ returned = Return("")
  /\ requests = 0
  /\ mcp = NoClient
  /\ inflight = NoneInFlight

NextOverlap ==
  \/ \E c \in Callers : SendMessageOf(c)
  \/ \E c \in Callers : OracleRespondsTo(c)
  \/ \E c \in Callers : OracleFailsFor(c)
  \/ \E c \in Callers : ToolReturnsTo(c)

SpecOverlap == InitOverlap /\ [][NextOverlap]_vars

\* ---------------------------------------------------------------- mcp/client.ts: the client singleton
\* getMcpClient and closeMcpClient are async functions over the module variables
\* mcpClient and mcpTransport (client.ts:10-11): each runs up to its await in one
\* step and resumes when the awaited promise settles, and other callers run in
\* between. A client is a number (its position in mcp.clients, 0 for null); a
\* transport is created and dropped together with its client and is not kept
\* apart. For every client, connect tells how its connect() stands and closed
\* whether close() has been called on it and has resolved.
NewClient == [connect |-> "pending", closed |-> FALSE]

\* who reaches getMcpClient: a caller of its own, getMcpTools (client.ts:51) or
\* executeMcpTool (client.ts:73)
McpEntries == {"getMcpClient", "getMcpTools", "executeMcpTool"}

\* client.ts:17-30, up to the await: the cached client is returned as it is;
\* otherwise a client is created and assigned to mcpClient before connect() is
\* awaited
GetMcpClientCalled(c) ==
  /\ inflight[c] = Idle
  /\ opCount < MaxOps
  /\ opCount' = opCount + 1
  /\ \E entry \in McpEntries :
       IF mcp.mcpClient # 0
       THEN /\ call' = Call("getMcpClient", [caller |-> c, entry |-> entry])
            /\ ret' = Return(mcp.mcpClient)
            /\ UNCHANGED <<mcp, inflight>>
       ELSE /\ mcp' = [mcpClient |-> Len(mcp.clients) + 1,
                       clients |-> Append(mcp.clients, NewClient)]
            /\ inflight' = [inflight EXCEPT ![c] =
                 [pc |-> "connecting", client |-> Len(mcp.clients) + 1, entry |-> entry]]
            /\ UNCHANGED <<call, ret>>
  /\ UNCHANGED <<files, clock>>
  /\ UNCHANGED agentVars

\* client.ts:30-32, connect() resolved: the function returns what mcpClient holds
\* by then
ConnectResolves(c) ==
  /\ inflight[c].pc = "connecting"
  /\ mcp' = [mcp EXCEPT !.clients[inflight[c].client].connect = "resolved"]
  /\ call' = Call("getMcpClient", [caller |-> c, entry |-> inflight[c].entry])
  /\ ret' = Return(mcp.mcpClient)
  /\ inflight' = [inflight EXCEPT ![c] = Idle]
  /\ UNCHANGED <<files, clock, opCount>>
  /\ UNCHANGED agentVars

\* client.ts:30, connect() rejected (npx or the server cannot be started): the
\* rejection leaves the function and nothing after line 30 runs
ConnectRejects(c) ==
  /\ inflight[c].pc = "connecting"
  /\ mcp' = [mcp EXCEPT !.clients[inflight[c].client].connect = "rejected"]
  /\ call' = Call("getMcpClient", [caller |-> c, entry |-> inflight[c].entry])
  /\ ret' = Throw("ConnectFailure", "spawn npx ENOENT")
  /\ inflight' = [inflight EXCEPT ![c] = Idle]
  /\ UNCHANGED <<files, clock, opCount>>
  /\ UNCHANGED agentVars

\* client.ts:38-40, up to the await: nothing to do without a client, otherwise
\* close() is called on the client mcpClient holds
CloseMcpClientCalled(c) ==
  /\ inflight[c] = Idle
  /\ opCount < MaxOps
  /\ opCount' = opCount + 1
  /\ IF mcp.mcpClient = 0
     THEN /\ call' = Call("closeMcpClient", [caller |-> c, entry |-> "closeMcpClient"])
          /\ ret' = Return(0)
          /\ UNCHANGED <<mcp, inflight>>
     ELSE /\ inflight' = [inflight EXCEPT ![c] =
               [pc |-> "closing", client |-> mcp.mcpClient, entry |-> "closeMcpClient"]]
          /\ UNCHANGED <<mcp, call, ret>>
  /\ UNCHANGED <<files, clock>>
  /\ UNCHANGED agentVars

\* client.ts:40-42, close() resolved: both module variables are set to null,
\* whichever client mcpClient holds by then
CloseResolves(c) ==
  /\ inflight[c].pc = "closing"
  /\ mcp' = [mcpClient |-> 0,
             clients |-> [mcp.clients EXCEPT ![inflight[c].client].closed = TRUE]]
  /\ call' = Call("closeMcpClient", [caller |-> c, entry |-> "closeMcpClient"])
  /\ ret' = Return(0)
  /\ inflight' = [inflight EXCEPT ![c] = Idle]
  /\ UNCHANGED <<files, clock, opCount>>
  /\ UNCHANGED agentVars

NextMcp ==
  \/ \E c \in Callers : GetMcpClientCalled(c)
  \/ \E c \in Callers : ConnectResolves(c)
  \/ \E c \in Callers : ConnectRejects(c)
  \/ \E c \in Callers : CloseMcpClientCalled(c)
  \/ \E c \in Callers : CloseResolves(c)

SpecMcp == Init /\ [][NextMcp]_vars

\* ---------------------------------------------------------------- the store, called directly
\* The four functions of storage.ts as a caller reaches them: saveMemory through
\* createIncident, loadMemory through getIncident (which returns its result as it
\* is), memoryExists and listIncidents.
CallMemoryExists ==
  Counted /\ \E id \in IncidentIds, io \in IO : memoryExists(id, io)

CallListIncidents ==
  Counted /\ \E io \in IO : listIncidents(io)

NextStore ==
  \/ Tick
  \/ CallCreateIncident
  \/ CallGetIncident
  \/ CallMemoryExists
  \/ CallListIncidents

SpecStore == Init /\ [][NextStore]_vars

\* ---------------------------------------------------------------- the state machine, resumed
\* The operations called on a directory that an earlier session left behind: an
\* incident created at instant 0, given a timeline event stamped 1 and two
\* hypotheses, the first of them confirmed at instant 0. confirmRootCause appends
\* without sorting (operations.ts line 232), so the stored timeline reads 0, 1, 0.
ResolvedSession ==
  LET params == CHOOSE p \in CreateIncidentParams : TRUE
      id == "inc_0_q7x2"
      created == createIncidentRecord(params, id, 0)
      evented == addTimelineEventRecord(created,
                   [incident_id |-> id, event |-> "Error spike", source |-> "logs",
                    details |-> "5xx rate at 40%", timestamp |-> 1], 0)
      proposed == proposeHypothesisRecord(evented,
                    [incident_id |-> id, title |-> "DB pool exhaustion",
                     proposed_by |-> "agent", initial_evidence |-> <<"connection timeouts">>,
                     confidence |-> "medium"], 0)
      second == proposeHypothesisRecord(proposed,
                  [incident_id |-> id, title |-> "Bad deploy",
                   proposed_by |-> "user", initial_evidence |-> <<"deploy at 09:58">>,
                   confidence |-> "low"], 0)
      confirmed == confirmRootCauseRecord(second, 1, 0, 0)
  IN (id :> Stringify(confirmed))

InitResumed ==
  /\ files = ResolvedSession
  /\ clock = 0
  /\ opCount = 0
  /\ call = NoCall
  /\ ret = Return(Null)
  /\ conversationHistory = <<>>
  /\ pc = "idle"
  /\ response = NoResponse
  /\ blockIndex = 0
  /\ toolResults = <<>>
  /\ events = <<>>
  /\ returned = Return("")
  /\ requests = 0
  /\ mcp = NoClient
  /\ inflight = NoneInFlight

\* the operations that write or read a timeline
NextResumed ==
  \/ Tick
  \/ CallCreateIncident
  \/ CallAddTimelineEvent
  \/ CallConfirmRootCause
  \/ CallGetTimeline

SpecResumed == InitResumed /\ [][NextResumed]_vars

\* ================================================================ properties
Hypotheses(id) == files[id].hypotheses
HypothesisIndexes(id) == 1..Len(files[id].hypotheses)
SomeHypothesis(P(_)) == \E id \in DOMAIN files : \E i \in HypothesisIndexes(id) : P(Hypotheses(id)[i])
Operated(op) == call.op = op /\ ret.kind = "return"

\* C1: in every reachable state of every stored record, metadata.status is
\* resolved if and only if some hypothesis of the record has status
\* confirmed_root_cause.
C1_ResolvedIffConfirmed ==
  \A id \in DOMAIN files :
    (files[id].metadata.status = "resolved")
      <=> (\E i \in HypothesisIndexes(id) : Hypotheses(id)[i].status = "confirmed_root_cause")

\* C2: in every reachable state, for every hypothesis, ruled_out_at is present if
\* and only if the status of the hypothesis is ruled_out.
C2_RuledOutAtIffRuledOut ==
  \A id \in DOMAIN files : \A i \in HypothesisIndexes(id) :
    HasProp(Hypotheses(id)[i], "ruled_out_at") <=> (Hypotheses(id)[i].status = "ruled_out")

\* C3: the status of a hypothesis is a one-way state machine: a hypothesis enters
\* the record as investigating, and once its status is confirmed_root_cause or
\* ruled_out no operation on the record changes it again.
Terminal(status) == status \in {"confirmed_root_cause", "ruled_out"}
SameRecord(id) == id \in DOMAIN files' /\ call'.op # "createIncident"
C3_StatusStep ==
  \A id \in DOMAIN files : SameRecord(id) =>
    /\ \A i \in HypothesisIndexes(id) :
         Terminal(Hypotheses(id)[i].status)
           => files'[id].hypotheses[i].status = Hypotheses(id)[i].status
    /\ \A i \in 1..Len(files'[id].hypotheses) :
         i > Len(Hypotheses(id)) => files'[id].hypotheses[i].status = "investigating"
C3_StatusOneWay == [][C3_StatusStep]_vars

\* C4: the timeline of every stored record is sorted by timestamp ascending
\* after every write.
Sorted(timeline) ==
  \A i \in 1..Len(timeline) - 1 : timeline[i].timestamp <= timeline[i + 1].timestamp
C4_TimelineSorted == \A id \in DOMAIN files : Sorted(files[id].timeline)

\* C5: under sequential operations the hypothesis ids of a record are pairwise
\* distinct, and no operation on the record changes the id of a hypothesis it
\* already holds (so an id in use is never handed to a later hypothesis).
DistinctIds(hypotheses) ==
  \A i, j \in 1..Len(hypotheses) : i # j => hypotheses[i].id # hypotheses[j].id
C5_IdsStep ==
  \A id \in DOMAIN files : SameRecord(id) =>
    /\ Len(files'[id].hypotheses) >= Len(Hypotheses(id))
    /\ \A i \in HypothesisIndexes(id) : files'[id].hypotheses[i].id = Hypotheses(id)[i].id
    /\ DistinctIds(files'[id].hypotheses)
Last(seq) == seq[Len(seq)]
ToolUsesOf(content) == SelectSeq(content, LAMBDA block : block.type = "tool_use")
IsToolResultTurn(turn) ==
  turn.role = "user" /\ \A i \in 1..Len(turn.content) : turn.content[i].type = "tool_result"
\* the turn answers the calls, entry by entry and in their order
Answers(turn, calls) ==
  /\ IsToolResultTurn(turn)
  /\ Len(turn.content) = Len(calls)
  /\ \A i \in 1..Len(calls) : turn.content[i].tool_use_id = calls[i].id
\* the step in which an awaited executeTool settles, and the one in which the
\* oracle's final message arrives
ToolSettles ==
  pc = "executing" /\ <<pc, blockIndex, toolResults, conversationHistory, returned>>'
                        # <<pc, blockIndex, toolResults, conversationHistory, returned>>
ResponseArrives == pc = "awaiting" /\ conversationHistory' # conversationHistory

\* C6: whenever the conversation is submitted to the oracle, every tool_use block
\* of every assistant turn of the history is answered by a tool_result with the
\* same id in the turn that immediately follows.
C6_ToolUsesAnswered ==
  pc = "awaiting" =>
    \A k \in 1..Len(conversationHistory) :
      LET calls == ToolUsesOf(conversationHistory[k].content)
      IN (conversationHistory[k].role = "assistant" /\ calls # <<>>) =>
           /\ k < Len(conversationHistory)
           /\ conversationHistory[k + 1].role = "user"
           /\ \A i \in 1..Len(calls) :
                \E j \in 1..Len(conversationHistory[k + 1].content) :
                  /\ conversationHistory[k + 1].content[j].type = "tool_result"
                  /\ conversationHistory[k + 1].content[j].tool_use_id = calls[i].id

\* C7: a tool call that fails does not abort sendMessage: the failure becomes the
\* result {error: message}, the tool_result for the call is still collected, the
\* remaining calls of the turn are still executed and the loop goes on to the next
\* oracle request.
C7_Step ==
  ToolSettles =>
    LET block == response.content[blockIndex]
        next == NextToolUse(response.content, blockIndex)
        entry == IF pc' = "executing" THEN Last(toolResults')
                 ELSE Last(Last(conversationHistory').content)
    IN /\ pc' \in {"executing", "awaiting"}
       /\ returned' = returned
       /\ entry.type = "tool_result" /\ entry.tool_use_id = block.id
       /\ ret'.kind = "throw" => entry.content = [json |-> Obj([error |-> ret'.message])]
       /\ IF next # 0
          THEN pc' = "executing" /\ blockIndex' = next /\ requests' = requests
          ELSE /\ pc' = "awaiting" /\ requests' = requests + 1
               /\ Len(conversationHistory') = Len(conversationHistory) + 1
               /\ Len(Last(conversationHistory').content) = Len(ToolUsesOf(response.content))
C7_FailedToolDoesNotAbort == [][C7_Step]_vars

\* the first call of a turn raised and the second one is being executed
C7_Witness ==
  /\ pc = "executing"
  /\ ret.kind = "throw"
  /\ Len(toolResults) = 1
  /\ events[2].isError

\* C8: a response with stop reason tool_use holding the calls c1..cn is answered by
\* exactly one new turn of n tool_result entries, the i-th with the id of ci, and
\* the next oracle request is issued only then; for any other stop reason no
\* tool-result turn is appended.
C8_Step ==
  /\ \A k \in 1..Len(conversationHistory') :
       IsToolResultTurn(conversationHistory'[k]) =>
         /\ k > 1
         /\ conversationHistory'[k - 1].role = "assistant"
         /\ Answers(conversationHistory'[k], ToolUsesOf(conversationHistory'[k - 1].content))
  /\ ResponseArrives =>
       /\ conversationHistory' = Append(conversationHistory, AssistantTurn(response'.content))
       /\ response'.stop_reason # "tool_use" => pc' = "idle" /\ requests' = requests
       /\ response'.stop_reason = "tool_use" => pc' = "executing" /\ requests' = requests
  /\ requests' # requests =>
       \/ pc = "idle"
       \/ /\ pc = "executing" /\ response.stop_reason = "tool_use"
          /\ Last(conversationHistory) = AssistantTurn(response.content)
          /\ Len(conversationHistory') = Len(conversationHistory) + 1
          /\ Answers(Last(conversationHistory'), ToolUsesOf(response.content))
C8_OneResultTurnPerToolResponse == [][C8_Step]_vars

\* a response asking for two calls has been answered and resubmitted
C8_Witness ==
  /\ pc = "awaiting"
  /\ response.stop_reason = "tool_use"
  /\ Len(ToolUsesOf(response.content)) = 2
  /\ Answers(Last(conversationHistory), ToolUsesOf(response.content))

\* C9: the calls of one oracle turn are executed one at a time in response order:
\* the observer sees start(c1), end(c1), ..., start(cn), end(cn), one start and one
\* end per call, and the isError flag of an end is true exactly when the result is
\* an object with an error property, hence for every call whose executor raised.
CarriesError(result) == result.type = "object" /\ HasProp(result.props, "error")
C9_Order ==
  (pc = "executing" \/ (pc = "awaiting" /\ IsToolResultTurn(Last(conversationHistory)))) =>
    LET calls == ToolUsesOf(response.content)
        done == IF pc = "executing" THEN Len(toolResults) ELSE Len(calls)
    IN /\ Len(events) = 2 * done + (IF pc = "executing" THEN 1 ELSE 0)
       /\ pc = "executing" => response.content[blockIndex] = calls[done + 1]
       /\ \A k \in 1..Len(calls) :
            /\ 2 * k - 1 <= Len(events) => events[2 * k - 1] = StartEvent(calls[k])
            /\ 2 * k <= Len(events) =>
                 /\ events[2 * k].ev = "onToolEnd"
                 /\ events[2 * k].name = calls[k].name
                 /\ events[2 * k].isError <=> CarriesError(events[2 * k].result)
C9_Step ==
  /\ C9_Order'
  /\ opCount' # opCount =>
       /\ pc = "executing"
       /\ Len(events') > Len(events)
       /\ events'[Len(events) + 1].ev = "onToolEnd"
       /\ ret'.kind = "throw" => events'[Len(events) + 1].isError
C9_SequentialToolCalls == [][C9_Step]_vars

\* a turn of two calls is over: the first failed, the second did not
C9_Witness ==
  /\ pc = "awaiting"
  /\ Len(events) = 4
  /\ events[2].isError
  /\ ~events[4].isError

\* C10: sendMessage goes round the loop exactly when the oracle answers tool_use
\* and returns on the first response with any other stop reason; when every oracle
\* request and every tool call returns, a sendMessage in progress eventually
\* returns.
C10_Step ==
  /\ ResponseArrives =>
       IF response'.stop_reason = "tool_use"
       THEN pc' = "executing" \/ pc' = "awaiting"
       ELSE pc' = "idle" /\ returned'.kind = "return"
  /\ (pc # "idle" /\ pc' = "idle") =>
       /\ ResponseArrives
       /\ response'.stop_reason # "tool_use"
       /\ returned' = Return(ReturnedText(response'))
C10_LoopsWhileToolUse ==
  /\ [][C10_Step]_vars
  /\ (pc # "idle") ~> (pc = "idle" /\ returned.kind = "return")

\* the loop went round once and sendMessage returned on a truncated response
C10_Witness ==
  /\ pc = "idle"
  /\ response.stop_reason = "max_tokens"
  /\ requests >= 2
  /\ IsToolResultTurn(conversationHistory[Len(conversationHistory) - 1])

\* ---------------------------------------------------------------- errors of the state machine
\* the step runs one of the operations ops (an operation or a tool executor ran
\* exactly when opCount moved; call' and ret' then describe it)
Ran(ops) == opCount' # opCount /\ call'.op \in ops
Mutations ==
  {"addTimelineEvent", "proposeHypothesis", "updateHypothesis", "ruleOutHypothesis",
   "confirmRootCause", "addFinding", "updateTLDR"}

\* C11: a mutating operation called with an incident id under which nothing is
\* stored fails, with NotFound whenever the store answered the load (a failing
\* medium surfaces as Storage instead), creates no record and leaves the whole
\* directory as it was.
C11_Step ==
  (Ran(Mutations) /\ call'.params.incident_id \notin DOMAIN files) =>
    /\ ret'.kind = "throw"
    /\ ret'.error \in {"NotFound", "Storage"}
    /\ ret'.error = "NotFound" => ret' = IncidentNotFound(call'.params.incident_id)
    /\ files' = files
C11_MutationOnAbsentIncidentFails == [][C11_Step]_vars

\* confirmRootCause was refused for an unknown incident while another one is stored
C11_Witness ==
  /\ call.op = "confirmRootCause"
  /\ call.params.incident_id \notin DOMAIN files
  /\ ret = IncidentNotFound(call.params.incident_id)
  /\ DOMAIN files # {}

\* C12: getIncident, getHypotheses and getTimeline change nothing in the store,
\* and each of them fails with NotFound when nothing is stored under the id (with
\* Storage when the medium fails).
Reads == {"getIncident", "getHypotheses", "getTimeline"}
C12_Step ==
  Ran(Reads) =>
    /\ files' = files
    /\ call'.params.incident_id \notin DOMAIN files =>
         /\ ret'.kind = "throw"
         /\ ret'.error \in {"NotFound", "Storage"}
C12_ReadOnAbsentIncidentFails == [][C12_Step]_vars

\* ---------------------------------------------------------------- tool dispatch
Executors ==
  Mutations \cup Reads \cup {"createIncident", "listIncidents", "executeMcpTool"}
\* the step in which executeTool settles for the block at blockIndex
Dispatched(names) ==
  pc = "executing" /\ opCount' # opCount /\ response.content[blockIndex].name \in names
AllToolNames == {c.name : c \in ToolCalls}

\* C13: dispatching a name that is in neither catalog fails with UnknownTool, and
\* the dispatcher produces that outcome itself: no executor is invoked.
C13_Step ==
  Dispatched(AllToolNames \ (memoryToolNames \cup mcpToolNames)) =>
    /\ ret'.kind = "throw"
    /\ ret'.error = "UnknownTool"
    /\ call'.op \notin Executors
C13_UnknownToolFails == [][C13_Step]_vars

\* C14: the dispatcher routes by name only. A name of the memory catalog is
\* executed by the state machine, by the operation of that name and with the input
\* bag as its parameters, never by the unknown-tool branch, also when the external
\* catalog has the same name; any other name goes to the log-query collaborator
\* with the same name and the same input bag, and the store is left alone.
ToolOperation ==
  [create_incident |-> "createIncident", get_incident |-> "getIncident",
   list_incidents |-> "listIncidents", add_timeline_event |-> "addTimelineEvent",
   propose_hypothesis |-> "proposeHypothesis", update_hypothesis |-> "updateHypothesis",
   rule_out_hypothesis |-> "ruleOutHypothesis", confirm_root_cause |-> "confirmRootCause",
   add_finding |-> "addFinding", update_tldr |-> "updateTLDR",
   get_hypotheses |-> "getHypotheses", get_timeline |-> "getTimeline"]
C14_Step ==
  LET block == response.content[blockIndex]
  IN /\ Dispatched(memoryToolNames) =>
          /\ call'.op = ToolOperation[block.name]
          /\ block.name \in {"get_incident", "get_hypotheses", "get_timeline"} =>
               call'.params = [incident_id |-> block.input.incident_id]
          /\ block.name \notin {"get_incident", "get_hypotheses", "get_timeline",
                                "list_incidents"} => call'.params = block.input
     /\ Dispatched(AllToolNames \ memoryToolNames) =>
          /\ call' = Call("executeMcpTool", [name |-> block.name, arguments |-> block.input])
          /\ files' = files /\ clock' = clock
C14_RoutesByName == [][C14_Step]_vars

\* list_incidents, a name both catalogs have, was executed by the state machine
C14_Witness ==
  /\ "list_incidents" \in memoryToolNames \cap mcpToolNames
  /\ call.op = "listIncidents"
  /\ events # <<>>
  /\ Last(events) = EndEvent([name |-> "list_incidents"], ret.value, FALSE)

\* ---------------------------------------------------------------- overlapping operations
Succeeded(c) == inflight[c].pc = "done" /\ inflight[c].outcome.kind = "return"
\* the stored record carries the mark of the call
HasEffect(k, memory) ==
  IF k.op = "addFinding"
  THEN \E i \in 1..Len(memory.findings) : memory.findings[i].description = k.params.description
  ELSE \E i \in 1..Len(memory.hypotheses) : memory.hypotheses[i].title = k.params.title
Lost(c) == Succeeded(c) /\ ~HasEffect(inflight[c].call, files[inflight[c].call.params.incident_id])
\* d worked on the same incident, loaded before c's save was done and saved after it
Overwrote(d, c) ==
  /\ Succeeded(d)
  /\ inflight[d].call.params.incident_id = inflight[c].call.params.incident_id
  /\ inflight[d].loadedAt < inflight[c].savedAt
  /\ inflight[c].savedAt < inflight[d].savedAt

\* C15: the update of an operation that succeeded is missing from the stored
\* record exactly when another operation on the same incident loaded before that
\* update was saved and saved after it; operations that do not overlap lose
\* nothing.
C15_LostUpdateOnlyWhenInterleaved ==
  \A c \in Callers :
    Succeeded(c) => (Lost(c) <=> \E d \in Callers \ {c} : Overwrote(d, c))

\* both operations succeeded and the stored record has only what b wrote
C15_Witness ==
  /\ Succeeded("a") /\ Succeeded("b")
  /\ Lost("a") /\ ~Lost("b")
  /\ inflight["a"].call.op = "addFinding" /\ inflight["b"].call.op = "proposeHypothesis"

\* ---------------------------------------------------------------- round trips
\* C16: after createIncident or a mutation that succeeded, loading the incident
\* yields a record equal to the one the operation returned, and saving the loaded
\* record again leaves the store as it is.
C16_Step ==
  (Ran(Mutations \cup {"createIncident"}) /\ ret'.kind = "return") =>
    LET id == ret'.value.incident_id
        loaded == files'[id]
    IN /\ id \in DOMAIN files'
       /\ loaded = ret'.value
       /\ [files' EXCEPT ![id] = Stringify(loaded)] = files'
C16_LoadReturnsWhatWasReturned == [][C16_Step]_vars

\* C17: immediately after every successful addTimelineEvent the returned and
\* stored timeline is sorted by timestamp ascending and holds the new event next
\* to the entries it had, whatever the supplied timestamp and whatever the order
\* of the timeline before the call.
Occurrences(seq, e) == Cardinality({i \in 1..Len(seq) : seq[i] = e})
C17_NewEvent ==
  [timestamp |-> IF HasProp(call'.params, "timestamp") THEN call'.params.timestamp ELSE clock,
   event |-> call'.params.event, source |-> call'.params.source,
   details |-> call'.params.details]
C17_Step ==
  (Ran({"addTimelineEvent"}) /\ ret'.kind = "return") =>
    LET id == call'.params.incident_id
        before == files[id].timeline
        after == ret'.value.timeline
    IN /\ files'[id].timeline = after
       /\ Sorted(after)
       /\ Len(after) = Len(before) + 1
       /\ \A i \in 1..Len(after) :
            Occurrences(after, after[i]) =
              Occurrences(before, after[i]) + (IF after[i] = C17_NewEvent THEN 1 ELSE 0)
C17_AddTimelineEventSorts == [][C17_Step]_vars

\* the timeline read 0, 1, 0 and an event stamped 0 has been added to it
C17_Witness ==
  /\ call.op = "addTimelineEvent"
  /\ ret.kind = "return"
  /\ call.params.incident_id = "inc_0_q7x2"
  /\ HasProp(call.params, "timestamp") /\ call.params.timestamp = 0
  /\ Len(ret.value.timeline) = 4
  /\ ret.value.timeline[2].event = "Root cause confirmed"
  /\ ret.value.timeline[3] = [timestamp |-> 0, event |-> "Error spike", source |-> "logs",
                              details |-> "5xx rate at 40%"]
  /\ ret.value.timeline[4].timestamp = 1

\* ---------------------------------------------------------------- hypotheses
HypothesisOps == {"updateHypothesis", "ruleOutHypothesis", "confirmRootCause"}
OnStoredIncident(ops) == Ran(ops) /\ call'.params.incident_id \in DOMAIN files
Carries(memory, hypothesis_id) ==
  \E i \in 1..Len(memory.hypotheses) : memory.hypotheses[i].id = hypothesis_id
OnStoredHypothesis(ops) ==
  /\ OnStoredIncident(ops)
  /\ Carries(files[call'.params.incident_id], call'.params.hypothesis_id)
Optionals == {"add_supporting_evidence", "add_counter_evidence", "new_confidence"}

\* C18: updateHypothesis on an existing hypothesis with none of
\* add_supporting_evidence, add_counter_evidence and new_confidence set succeeds
\* (unless the store fails), writes the record, and leaves the whole record
\* identical to what it was before the call.
C18_Step ==
  (OnStoredHypothesis({"updateHypothesis"}) /\ DOMAIN call'.params \cap Optionals = {}) =>
    /\ ret'.kind = "return" \/ ret' = StorageError
    /\ ret'.kind = "return" => ret'.value = files[call'.params.incident_id]
    /\ files' = files
C18_EmptyUpdateIsNoOp == [][C18_Step]_vars

\* an update that names no optional field has returned a record whose hypothesis
\* an earlier update had raised to high confidence
C18_Witness ==
  /\ call.op = "updateHypothesis"
  /\ DOMAIN call.params \cap Optionals = {}
  /\ ret.kind = "return"
  /\ ret.value = files[call.params.incident_id]
  /\ \E i \in 1..Len(ret.value.hypotheses) :
       /\ ret.value.hypotheses[i].id = call.params.hypothesis_id
       /\ ret.value.hypotheses[i].confidence = "high"
       /\ ret.value.hypotheses[i].supporting_evidence # <<>>

\* C19: updateHypothesis, ruleOutHypothesis and confirmRootCause called on a
\* stored incident with a hypothesis_id that none of its hypotheses carries fail
\* with NotFound (or with the store's own failure) and leave the directory as it
\* was; when the hypothesis exists, a successful updateHypothesis appends the
\* given evidence items in their order, duplicates included, overwrites confidence
\* only if a new one is given, and changes nothing else.
Given(params, key) == IF key \in DOMAIN params THEN params[key] ELSE <<>>
C19_Updated(h, params) ==
  [h EXCEPT !.supporting_evidence = @ \o Given(params, "add_supporting_evidence"),
            !.counter_evidence = @ \o Given(params, "add_counter_evidence"),
            !.confidence = IF "new_confidence" \in DOMAIN params
                           THEN params.new_confidence ELSE @]
C19_Unknown ==
  (OnStoredIncident(HypothesisOps) /\ ~OnStoredHypothesis(HypothesisOps)) =>
    /\ ret'.kind = "throw" /\ ret'.error \in {"NotFound", "Storage"}
    /\ ret'.error = "NotFound" => ret' = HypothesisNotFound(call'.params.hypothesis_id)
    /\ files' = files
C19_Known ==
  (OnStoredHypothesis({"updateHypothesis"}) /\ ret'.kind = "return") =>
    LET id == call'.params.incident_id
        before == files[id]
        i == CHOOSE k \in 1..Len(before.hypotheses) :
               before.hypotheses[k].id = call'.params.hypothesis_id
    IN /\ ret'.value =
            [before EXCEPT !.hypotheses[i] = C19_Updated(@, call'.params)]
       /\ files' = [files EXCEPT ![id] = ret'.value]
C19_Step == C19_Unknown /\ C19_Known
C19_UpdateAppendsOrFailsNotFound == [][C19_Step]_vars

\* an update has appended two items, one of them listed already
C19_Witness ==
  /\ call.op = "updateHypothesis"
  /\ ret.kind = "return"
  /\ \E i \in 1..Len(ret.value.hypotheses) :
       /\ ret.value.hypotheses[i].id = call.params.hypothesis_id
       /\ ret.value.hypotheses[i].supporting_evidence =
            <<"connection timeouts", "pool at max", "connection timeouts">>
       /\ files[call.params.incident_id].hypotheses[i] = ret.value.hypotheses[i]

\* ---------------------------------------------------------------- creation
\* C20: a successful createIncident returns and stores a new record with status
\* investigating, summary equal to the given description, exactly one timeline
\* entry ("Investigation started", source user, details = the description,
\* timestamp = the creation timestamp) and empty hypotheses, findings and
\* ruled_out; it never overwrites a record that already exists.
C20_Shape(memory, params) ==
  /\ memory.metadata.status = "investigating"
  /\ memory.tldr.summary = params.initial_description
  /\ memory.timeline = <<[timestamp |-> memory.metadata.started_at,
                          event |-> "Investigation started", source |-> "user",
                          details |-> params.initial_description]>>
  /\ memory.hypotheses = <<>>
  /\ memory.findings = <<>>
  /\ memory.ruled_out = <<>>
C20_Step ==
  (Ran({"createIncident"}) /\ ret'.kind = "return") =>
    LET memory == ret'.value
    IN /\ C20_Shape(memory, call'.params)
       /\ memory.incident_id \in DOMAIN files'
       /\ files'[memory.incident_id] = memory
       /\ memory.incident_id \notin DOMAIN files
       /\ \A id \in DOMAIN files : files'[id] = files[id]
C20_CreateNeverOverwrites == [][C20_Step]_vars

\* ---------------------------------------------------------------- what each mutation writes
Succeeds(op) == Ran({op}) /\ ret'.kind = "return"
Before == files[call'.params.incident_id]
After == ret'.value
Stored == files'[call'.params.incident_id]
Target(memory) ==
  CHOOSE k \in 1..Len(memory.hypotheses) : memory.hypotheses[k].id = call'.params.hypothesis_id

\* C21: a successful proposeHypothesis on a record holding n hypotheses appends
\* exactly one hypothesis at position n + 1 with id hyp_<n+1>, status
\* investigating, the given title, proposer, confidence and initial evidence as
\* supporting evidence, empty counter-evidence and no ruled_out_at, and leaves the
\* n existing hypotheses and the rest of the record as they were.
C21_Step ==
  Succeeds("proposeHypothesis") =>
    LET n == Len(Before.hypotheses)
        h == After.hypotheses[n + 1]
    IN /\ Len(After.hypotheses) = n + 1
       /\ SubSeq(After.hypotheses, 1, n) = Before.hypotheses
       /\ h.id = "hyp_" \o ToString(n + 1)
       /\ h.status = "investigating"
       /\ h.title = call'.params.title
       /\ h.proposed_by = call'.params.proposed_by
       /\ h.confidence = call'.params.confidence
       /\ h.supporting_evidence = call'.params.initial_evidence
       /\ h.counter_evidence = <<>>
       /\ h.proposed_at = clock
       /\ "ruled_out_at" \notin DOMAIN h
       /\ After = [Before EXCEPT !.hypotheses = Append(@, h)]
       /\ files' = [files EXCEPT ![call'.params.incident_id] = After]
C21_ProposeAppendsOne == [][C21_Step]_vars

\* a second hypothesis has been proposed on a record that held one
C21_Witness ==
  /\ call.op = "proposeHypothesis"
  /\ ret.kind = "return"
  /\ Len(ret.value.hypotheses) = 2
  /\ ret.value.hypotheses[2].id = "hyp_2"
  /\ ret.value.hypotheses[2].title = call.params.title
  /\ ret.value.hypotheses[1].title # call.params.title
  /\ files[call.params.incident_id] = ret.value

\* C22: a successful ruleOutHypothesis sets the status of the hypothesis to
\* ruled_out, sets its ruled_out_at, and appends exactly one audit entry whose
\* title is the hypothesis's title, whose reason is the given reason and whose
\* timestamp equals that ruled_out_at; this happens on every call, also when the
\* hypothesis was ruled out before, and nothing else in the record changes.
C22_Step ==
  Succeeds("ruleOutHypothesis") =>
    LET i == Target(Before)
        h0 == Before.hypotheses[i]
        h1 == After.hypotheses[i]
        n == Len(Before.ruled_out)
        entry == After.ruled_out[n + 1]
    IN /\ h1.status = "ruled_out"
       /\ "ruled_out_at" \in DOMAIN h1 /\ h1.ruled_out_at = clock
       /\ \A key \in DOMAIN h0 \ {"status", "ruled_out_at"} : h1[key] = h0[key]
       /\ DOMAIN h1 = DOMAIN h0 \cup {"ruled_out_at"}
       /\ Len(After.ruled_out) = n + 1
       /\ SubSeq(After.ruled_out, 1, n) = Before.ruled_out
       /\ entry = [hypothesis |-> h0.title, reason |-> call'.params.reason,
                   ruled_out_at |-> h1.ruled_out_at]
       /\ After = [Before EXCEPT !.hypotheses[i] = h1, !.ruled_out = Append(@, entry)]
       /\ Stored = After
C22_RuleOutStampsAndAudits == [][C22_Step]_vars

\* the same hypothesis has been ruled out twice and the audit holds two entries for it
C22_Witness ==
  /\ call.op = "ruleOutHypothesis"
  /\ ret.kind = "return"
  /\ Len(ret.value.hypotheses) = 1
  /\ Len(ret.value.ruled_out) = 2
  /\ ret.value.ruled_out[1].hypothesis = ret.value.ruled_out[2].hypothesis
  /\ ret.value.ruled_out[2].ruled_out_at = ret.value.hypotheses[1].ruled_out_at
  /\ files[call.params.incident_id] = ret.value

\* C23: a successful confirmRootCause sets the status of the hypothesis to
\* confirmed_root_cause, sets metadata.status to resolved, replaces the summary by
\* "Root cause confirmed: <title>" with a last-updated timestamp read at the call,
\* and adds exactly one timeline entry "Root cause confirmed" whose details are
\* the title, after all the earlier timeline entries, which are kept.
C23_Step ==
  Succeeds("confirmRootCause") =>
    LET i == Target(Before)
        h0 == Before.hypotheses[i]
        n == Len(Before.timeline)
        entry == After.timeline[n + 1]
    IN /\ After.hypotheses = [Before.hypotheses EXCEPT ![i].status = "confirmed_root_cause"]
       /\ After.metadata = [Before.metadata EXCEPT !.status = "resolved"]
       /\ After.tldr.summary = "Root cause confirmed: " \o h0.title
       /\ After.tldr.last_updated = clock
       /\ Len(After.timeline) = n + 1
       /\ SubSeq(After.timeline, 1, n) = Before.timeline
       /\ entry.event = "Root cause confirmed"
       /\ entry.details = h0.title
       /\ entry.source = "user"
       /\ entry.timestamp = clock'
       /\ After.findings = Before.findings
       /\ After.ruled_out = Before.ruled_out
       /\ Stored = After
C23_ConfirmResolves == [][C23_Step]_vars

\* a hypothesis has been confirmed on a record whose timeline held two entries
C23_Witness ==
  /\ call.op = "confirmRootCause"
  /\ ret.kind = "return"
  /\ Len(ret.value.timeline) = 3
  /\ ret.value.timeline[2].event = "Error spike"
  /\ ret.value.timeline[3].event = "Root cause confirmed"
  /\ ret.value.metadata.status = "resolved"
  /\ ret.value.tldr.summary = "Root cause confirmed: " \o ret.value.timeline[3].details
  /\ files[call.params.incident_id] = ret.value

\* C24: confirmRootCause on a hypothesis the record carries succeeds (unless the
\* store fails) whatever the statuses of the hypotheses and of the incident, also
\* when another hypothesis is confirmed_root_cause already; the number of
\* confirmed hypotheses of a record is therefore not bounded by one.
Confirmed(memory) ==
  {k \in 1..Len(memory.hypotheses) : memory.hypotheses[k].status = "confirmed_root_cause"}
C24_Step ==
  OnStoredHypothesis({"confirmRootCause"}) =>
    /\ ret'.kind = "return" \/ ret' = StorageError
    /\ ret'.kind = "return" =>
         /\ Confirmed(After) = Confirmed(Before) \cup {Target(Before)}
         /\ Stored = After
C24_ConfirmNeverRejected == [][C24_Step]_vars

\* a second hypothesis has been confirmed in a record that was resolved already
C24_Witness ==
  /\ call.op = "confirmRootCause"
  /\ ret.kind = "return"
  /\ call.params.hypothesis_id = "hyp_2"
  /\ Cardinality(Confirmed(ret.value)) = 2
  /\ Cardinality(Confirmed(files[call.params.incident_id])) = 2

\* ---------------------------------------------------------------- what sendMessage returns
\* C25: when the oracle's stop reason is max_tokens, sendMessage returns the text
\* of the response followed by the truncation marker and ends without executing
\* any tool the response holds; for end_turn and every other stop reason but
\* tool_use it returns exactly the concatenated text blocks of the response,
\* without the marker.
RECURSIVE Concatenated(_)
Concatenated(content) ==
  IF content = <<>> THEN ""
  ELSE (IF Head(content).type = "text" THEN Head(content).text ELSE "")
       \o Concatenated(Tail(content))
C25_Step ==
  (pc = "awaiting" /\ response' \in OracleResponses /\ conversationHistory' # conversationHistory
   /\ response'.stop_reason # "tool_use") =>
    /\ pc' = "idle"
    /\ opCount' = opCount /\ files' = files /\ events' = <<>> /\ toolResults' = <<>>
    /\ requests' = requests
    /\ returned' = Return(IF response'.stop_reason = "max_tokens"
                          THEN Concatenated(response'.content) \o TRUNCATION_NOTICE
                          ELSE Concatenated(response'.content))
C25_ReturnsConcatenatedText == [][C25_Step]_vars

\* ---------------------------------------------------------------- append-only sequences
\* C26: under sequential operations the findings and ruled_out sequences of a
\* record are append-only: every operation on a stored record leaves the record
\* stored and each of the two sequences with its old value as a prefix; findings
\* grows only by a successful addFinding on that record and ruled_out only by a
\* successful ruleOutHypothesis on it, each by exactly one entry per call.
IsPrefix(s, t) == Len(s) <= Len(t) /\ SubSeq(t, 1, Len(s)) = s
Grows(op, id, old, new) ==
  IF Succeeds(op) /\ call'.params.incident_id = id
  THEN Len(new) = Len(old) + 1
  ELSE new = old
C26_Step ==
  \A id \in DOMAIN files :
    /\ id \in DOMAIN files'
    /\ SameRecord(id) =>
         /\ IsPrefix(files[id].findings, files'[id].findings)
         /\ IsPrefix(files[id].ruled_out, files'[id].ruled_out)
         /\ Grows("addFinding", id, files[id].findings, files'[id].findings)
         /\ Grows("ruleOutHypothesis", id, files[id].ruled_out, files'[id].ruled_out)
Members(seq) == {seq[k] : k \in 1..Len(seq)}
C27_Answer ==
  ret'.kind = "throw" => ret' = StorageError
C27_Step ==
  /\ Ran({"getIncident"}) =>
       /\ C27_Answer
       /\ ret'.kind = "return" =>
            IF call'.params.incident_id \in DOMAIN files
            THEN ret'.value = files[call'.params.incident_id]
            ELSE ret'.value = Null
  /\ Ran({"memoryExists"}) =>
       /\ C27_Answer
       /\ ret'.kind = "return" =>
            ret'.value = Bool(call'.params.incident_id \in DOMAIN files)
  /\ Ran({"listIncidents"}) =>
       /\ C27_Answer
       /\ ret'.kind = "return" =>
            /\ Members(ret'.value.strings) = DOMAIN files
            /\ Len(ret'.value.strings) = Cardinality(DOMAIN files)
  /\ Ran({"createIncident"}) =>
       /\ C27_Answer
       /\ ret'.kind = "return" => ret'.value.incident_id \in DOMAIN files'
       /\ ret'.kind = "throw" => files' = files
C27_AbsentIsNotFailure == [][C27_Step]_vars

\* ---------------------------------------------------------------- concurrent proposers
\* C28: when the load and save steps of two proposeHypothesis calls on the same
\* record interleave, both calls can return the same id hyp_<n> for two different
\* hypotheses, while every stored version of the record, and every record a call
\* returns, still has pairwise distinct hypothesis ids.
Proposed(c) ==
  /\ inflight[c].pc = "done"
  /\ inflight[c].call.op = "proposeHypothesis"
  /\ inflight[c].outcome.kind = "return"
NewHypothesis(c) == Last(inflight[c].outcome.value.hypotheses)
C28_StoredIdsDistinct ==
  /\ \A id \in DOMAIN files : DistinctIds(files[id].hypotheses)
  /\ \A c \in Callers :
       /\ inflight[c].pc = "saving" => DistinctIds(inflight[c].memory.hypotheses)
       /\ Proposed(c) =>
            /\ DistinctIds(inflight[c].outcome.value.hypotheses)
            /\ NewHypothesis(c).id =
                 "hyp_" \o ToString(Len(inflight[c].outcome.value.hypotheses))

\* both proposers were handed hyp_2, for different hypotheses; the stored record
\* holds one of the two
C28_Witness ==
  /\ Proposed("a") /\ Proposed("b")
  /\ inflight["a"].call.params.incident_id = inflight["b"].call.params.incident_id
  /\ NewHypothesis("a").id = "hyp_2"
  /\ NewHypothesis("b").id = "hyp_2"
  /\ NewHypothesis("a").title # NewHypothesis("b").title
  /\ Len(files[inflight["a"].call.params.incident_id].hypotheses) = 2

\* ---------------------------------------------------------------- the conversation history
\* C29: at every oracle request the conversation history submitted strictly
\* alternates user and assistant turns, starts with a user turn and ends with a
\* user turn, for any sequence of sendMessage calls that do not overlap, also
\* after an earlier sendMessage ended with an exception of the oracle request.
Alternates(history) ==
  \A k \in 1..Len(history) :
    history[k].role = (IF k % 2 = 1 THEN "user" ELSE "assistant")
C29_RequestsAlternate ==
  pc = "awaiting" =>
    /\ conversationHistory # <<>>
    /\ Alternates(conversationHistory)
    /\ Last(conversationHistory).role = "user"

\* C30: the conversation history only grows: every step leaves the turns it held
\* in place and unaltered; sendMessage first appends the user's message and issues
\* its request on the history so extended; the oracle's full response is appended
\* as one assistant turn for every stop reason, before the stop reason decides;
\* the tool results are appended as one user turn before the next request.
Issued == pc = "idle" /\ pc' = "awaiting"
Answered ==
  /\ pc = "awaiting"
  /\ conversationHistory' # conversationHistory \/ response' # response
C30_Step ==
  /\ IsPrefix(conversationHistory, conversationHistory')
  /\ Len(conversationHistory') <= Len(conversationHistory) + 1
  /\ Issued =>
       /\ Len(conversationHistory') = Len(conversationHistory) + 1
       /\ Last(conversationHistory').role = "user"
       /\ Last(conversationHistory').content \in {<<Text(m)>> : m \in UserMessages}
       /\ requests' = requests + 1
  /\ Answered =>
       /\ response'.stop_reason \in {"end_turn", "tool_use", "max_tokens", "pause_turn"}
       /\ conversationHistory' =
            Append(conversationHistory, [role |-> "assistant", content |-> response'.content])
  /\ (pc = "executing" /\ conversationHistory' # conversationHistory) =>
       /\ pc' = "awaiting"
       /\ Last(conversationHistory').role = "user"
       /\ Len(Last(conversationHistory').content) = Len(ToolUsesOf(response.content))
C30_HistoryOnlyGrows == [][C30_Step]_vars

\* a truncated response holding a tool_use block is in the history in full, after
\* an earlier exchange
C30_Witness ==
  /\ pc = "idle"
  /\ response.stop_reason = "max_tokens"
  /\ Len(ToolUsesOf(response.content)) = 1
  /\ Len(conversationHistory) = 4
  /\ Last(conversationHistory) = [role |-> "assistant", content |-> response.content]
  /\ returned.kind = "return"

\* ---------------------------------------------------------------- overlapping sendMessage calls
\* C31: the turns one sendMessage call appends are, in their order, the user's
\* message and then assistant turns and tool-result turns in alternation; they
\* form a contiguous block of the history when no other call was in flight during
\* the call, and every turn of the history was appended by exactly one call; with
\* two overlapping calls the appends can interleave, so that a request can carry
\* a history in which a tool-result turn follows a user turn instead of the
\* assistant turn that requested it.
Contiguous(positions) ==
  \A k \in 1..Len(positions) - 1 : positions[k + 1] = positions[k] + 1
Called(c) == inflight[c] # Idle
Owned(c) == IF Called(c) THEN Members(inflight[c].turns) ELSE {}
C31_BlocksContiguousUnlessOverlapped ==
  /\ \A c \in Callers : Called(c) =>
       LET positions == inflight[c].turns
       IN /\ \A k \in 1..Len(positions) :
               /\ positions[k] \in 1..Len(conversationHistory)
               /\ k > 1 => positions[k - 1] < positions[k]
               /\ conversationHistory[positions[k]].role =
                    (IF k % 2 = 1 THEN "user" ELSE "assistant")
               /\ (k > 1 /\ k % 2 = 1) =>
                    Answers(conversationHistory[positions[k]],
                            ToolUsesOf(conversationHistory[positions[k - 1]].content))
          /\ conversationHistory[positions[1]].content = <<Text(OverlapMessages(c))>>
          /\ IsPrefix(inflight[c].request, conversationHistory)
          /\ inflight[c].pc = "awaiting" => Len(inflight[c].request) = Last(positions)
          /\ ~inflight[c].overlapped => Contiguous(positions)
  /\ \A c, d \in Callers : c # d => Owned(c) \cap Owned(d) = {}
  /\ UNION {Owned(c) : c \in Callers} = 1..Len(conversationHistory)

\* no request has failed, and the request a call awaits carries the other call's
\* user message between its tool_use turn and the tool results
C31_Witness ==
  /\ \A c \in Callers : inflight[c].pc = "done" => inflight[c].outcome.kind = "return"
  /\ \E c \in Callers :
       /\ inflight[c].pc = "awaiting"
       /\ inflight[c].overlapped
       /\ \E k \in 2..Len(inflight[c].request) :
            /\ IsToolResultTurn(inflight[c].request[k])
            /\ inflight[c].request[k - 1].role = "user"
            /\ ~IsToolResultTurn(inflight[c].request[k - 1])
            /\ ToolUsesOf(inflight[c].request[k - 2].content) # <<>>

\* ---------------------------------------------------------------- frames
\* C32: each successful operation changes only its own part of the record it
\* addresses and no other record: addFinding only findings; updateTLDR only the
\* summary and its timestamp; addTimelineEvent only the timeline;
\* proposeHypothesis only the hypotheses sequence; updateHypothesis only the
\* evidence lists and confidence of the addressed hypothesis; ruleOutHypothesis
\* only status and ruled_out_at of the addressed hypothesis and ruled_out; no
\* operation changes incident id, name, severity, affected services, investigator
\* or creation timestamp, and none deletes a record.
OnlyPart(old, new, part) == new = [old EXCEPT ![part] = new[part]]
OnlyHypothesis(old, new, parts) ==
  /\ Len(new.hypotheses) = Len(old.hypotheses)
  /\ \A k \in 1..Len(old.hypotheses) :
       IF k = Target(old)
       THEN \A key \in (DOMAIN old.hypotheses[k] \cup DOMAIN new.hypotheses[k]) \ parts :
              /\ key \in DOMAIN old.hypotheses[k] /\ key \in DOMAIN new.hypotheses[k]
              /\ new.hypotheses[k][key] = old.hypotheses[k][key]
       ELSE new.hypotheses[k] = old.hypotheses[k]
C32_Frame(op, old, new) ==
  CASE op = "addFinding" -> OnlyPart(old, new, "findings")
    [] op = "updateTLDR" -> OnlyPart(old, new, "tldr")
    [] op = "addTimelineEvent" -> OnlyPart(old, new, "timeline")
    [] op = "proposeHypothesis" -> OnlyPart(old, new, "hypotheses")
    [] op = "updateHypothesis" ->
         /\ OnlyPart(old, new, "hypotheses")
         /\ OnlyHypothesis(old, new, {"supporting_evidence", "counter_evidence", "confidence"})
    [] op = "ruleOutHypothesis" ->
         /\ [new EXCEPT !.hypotheses = old.hypotheses, !.ruled_out = old.ruled_out] = old
         /\ OnlyHypothesis(old, new, {"status", "ruled_out_at"})
    [] OTHER -> TRUE
C32_Step ==
  \A id \in DOMAIN files :
    /\ id \in DOMAIN files'
    /\ SameRecord(id) =>
         LET old == files[id]
             new == files'[id]
         IN /\ new.incident_id = old.incident_id
            /\ new.incident_name = old.incident_name
            /\ [new.metadata EXCEPT !.status = old.metadata.status] = old.metadata
            /\ IF opCount' # opCount /\ ret'.kind = "return"
                  /\ call'.op \in Mutations /\ call'.params.incident_id = id
               THEN C32_Frame(call'.op, old, new)
               ELSE new = old
ConfirmedHere(id) ==
  Succeeds("confirmRootCause") /\ call'.params.incident_id = id
C33_Step ==
  /\ Succeeds("createIncident") => ret'.value.metadata.status = "investigating"
  /\ \A id \in DOMAIN files' : files'[id].metadata.status \in {"investigating", "resolved"}
  /\ \A id \in DOMAIN files : SameRecord(id) =>
       LET old == files[id].metadata.status
           new == files'[id].metadata.status
       IN /\ old = "resolved" => new = "resolved"
          /\ ConfirmedHere(id) => new = "resolved"
          /\ (old = "investigating" /\ ~ConfirmedHere(id)) => new = "investigating"
RuledOut(memory) ==
  {k \in 1..Len(memory.hypotheses) : memory.hypotheses[k].status = "ruled_out"}
Audited(memory, h) ==
  /\ "ruled_out_at" \in DOMAIN h
  /\ \E e \in 1..Len(memory.ruled_out) :
       /\ memory.ruled_out[e].hypothesis = h.title
       /\ memory.ruled_out[e].ruled_out_at = h.ruled_out_at
C34_Step ==
  /\ \A id \in DOMAIN files' :
       /\ \A k \in RuledOut(files'[id]) : Audited(files'[id], files'[id].hypotheses[k])
       /\ Len(files'[id].ruled_out) >= Cardinality(RuledOut(files'[id]))
  /\ Succeeds("createIncident") => ret'.value.ruled_out = <<>>
  /\ \A id \in DOMAIN files : SameRecord(id) =>
       Len(files'[id].ruled_out) =
         Len(files[id].ruled_out)
           + (IF Succeeds("ruleOutHypothesis") /\ call'.params.incident_id = id THEN 1 ELSE 0)
McpAnswered(op) ==
  /\ call'.op = op
  /\ \/ opCount' # opCount /\ inflight' = inflight
     \/ \E c \in Callers : inflight[c].pc \in {"connecting", "closing"} /\ inflight'[c] = Idle
McpCreates == Len(mcp'.clients) = Len(mcp.clients) + 1
McpOpen(m) == {n \in 1..Len(m.clients) : ~m.clients[n].closed}
C35_OneClient ==
  McpCreates => McpOpen(mcp') = {Len(mcp'.clients)} /\ mcp'.mcpClient = Len(mcp'.clients)
C35_ReturnedConnected ==
  McpAnswered("getMcpClient") /\ ret'.kind = "return" =>
    /\ ret'.value \in 1..Len(mcp'.clients)
    /\ mcp'.clients[ret'.value].connect = "resolved"
C35_FailureNotCached ==
  McpAnswered("getMcpClient") /\ ret'.kind = "throw" => mcp'.mcpClient = 0
C35_CloseResets ==
  /\ McpAnswered("closeMcpClient") => mcp'.mcpClient = 0
  /\ McpAnswered("closeMcpClient") /\ mcp.mcpClient = 0 => mcp' = mcp
  /\ mcp.mcpClient = 0 /\ opCount' # opCount /\ ~McpAnswered("closeMcpClient") =>
       McpCreates /\ mcp'.clients[mcp'.mcpClient] = NewClient
C35_Step ==
  /\ C35_OneClient
  /\ C35_ReturnedConnected
  /\ C35_FailureNotCached
  /\ C35_CloseResets
C35_ClientIsSingleton == [][C35_Step]_vars

====
